---- MODULE Spec2Model ----
(***************************************************************************)
(* Model of the case-conversion utilities (extractWords, convertCase,      *)
(* toCase).  A JavaScript string is a sequence of one-character strings    *)
(* (UTF-16 code units); a JavaScript value is a record carrying its        *)
(* `typeof` tag and, for a string, its code units.                         *)
(***************************************************************************)
EXTENDS Integers, Sequences, FiniteSets, TLC

\* ------------------------------------------------------------------ bounds

\* Longest input string that is enumerated.
MaxLen == 4

\* Code units the enumerated input strings are built from: a lowercase and an
\* uppercase letter, a digit, the four joiners, and a letter outside ASCII.
Alphabet == {"a", "B", "1", " ", "_", "-", ".", "é"}

\* ------------------------------------------------------- JavaScript values

Str(s) == [type |-> "string", value |-> s]

\* null, undefined and a number: the values whose typeof is not "string".
NonStrings ==
  { [type |-> "object", value |-> <<>>],
    [type |-> "undefined", value |-> <<>>],
    [type |-> "number", value |-> <<>>] }

Strings == UNION { [1..n -> Alphabet] : n \in 0..MaxLen }

Inputs == { Str(s) : s \in Strings } \cup NonStrings

TypeOf(v) == v.type

\* ------------------------------------------------------- character classes

LowerLetters ==
  << "a", "b", "c", "d", "e", "f", "g", "h", "i", "j", "k", "l", "m",
     "n", "o", "p", "q", "r", "s", "t", "u", "v", "w", "x", "y", "z" >>

UpperLetters ==
  << "A", "B", "C", "D", "E", "F", "G", "H", "I", "J", "K", "L", "M",
     "N", "O", "P", "Q", "R", "S", "T", "U", "V", "W", "X", "Y", "Z" >>

\* [a-z]
LowerAZ == { LowerLetters[i] : i \in DOMAIN LowerLetters }

\* [A-Z]
UpperAZ == { UpperLetters[i] : i \in DOMAIN UpperLetters }

\* [0-9]
Digit09 == {"0", "1", "2", "3", "4", "5", "6", "7", "8", "9"}

\* [a-zA-Z]
LetterAZ == LowerAZ \cup UpperAZ

\* [a-zA-Z0-9]
Alnum == LetterAZ \cup Digit09

\* The code units String.prototype.trim strips (those the model can write).
WhiteSpace == {" ", "\t", "\n", "\r", "\f"}

\* Case mappings of single code units; the letter outside ASCII has one too.
UpperOf ==
  [c \in LowerAZ \cup {"é"} |->
     IF c = "é" THEN "É"
     ELSE UpperLetters[CHOOSE i \in DOMAIN LowerLetters : LowerLetters[i] = c]]

LowerOf ==
  [c \in UpperAZ \cup {"É"} |->
     IF c = "É" THEN "é"
     ELSE LowerLetters[CHOOSE i \in DOMAIN UpperLetters : UpperLetters[i] = c]]

toUpperCase(s) ==
  [i \in 1..Len(s) |-> IF s[i] \in DOMAIN UpperOf THEN UpperOf[s[i]] ELSE s[i]]

toLowerCase(s) ==
  [i \in 1..Len(s) |-> IF s[i] \in DOMAIN LowerOf THEN LowerOf[s[i]] ELSE s[i]]

\* ------------------------------------------------------- string primitives

\* String.prototype.charAt(0): the first code unit, or "" for the empty string.
charAt0(s) == IF Len(s) = 0 THEN <<>> ELSE <<s[1]>>

\* String.prototype.slice(1)
slice1(s) == IF Len(s) = 0 THEN <<>> ELSE SubSeq(s, 2, Len(s))

RECURSIVE TrimStart(_)
TrimStart(s) ==
  IF Len(s) > 0 /\ s[1] \in WhiteSpace THEN TrimStart(Tail(s)) ELSE s

RECURSIVE TrimEnd(_)
TrimEnd(s) ==
  IF Len(s) > 0 /\ s[Len(s)] \in WhiteSpace
  THEN TrimEnd(SubSeq(s, 1, Len(s) - 1))
  ELSE s

\* String.prototype.trim
trim(s) == TrimEnd(TrimStart(s))

\* Array.prototype.join
RECURSIVE join(_, _)
join(ws, sep) ==
  IF Len(ws) = 0 THEN <<>>
  ELSE IF Len(ws) = 1 THEN ws[1]
  ELSE ws[1] \o sep \o join(Tail(ws), sep)

\* ------------------------------------------------------- the splitting regex

NoMatch == -1

\* A mistaken class: `\W`, which takes the underscore for a word character.
nonAlnum_W(c) == c \notin Alnum \cup {"_"}

\* A mistaken class: `\s`, which splits at white space only.
nonAlnum_SpaceOnly(c) == c \in WhiteSpace

\* `[^a-zA-Z0-9]`: the class of separator code units.
nonAlnum(c) == c \notin Alnum

\* `[^a-zA-Z0-9]+` tried at position q (0-based): the end of the greedy run.
RECURSIVE RunEnd(_, _)
RunEnd(S, q) ==
  IF q < Len(S) /\ nonAlnum(S[q + 1]) THEN RunEnd(S, q + 1) ELSE q

regexAlt1(S, q) ==
  IF q < Len(S) /\ nonAlnum(S[q + 1]) THEN RunEnd(S, q) ELSE NoMatch

\* A mistaken camel rule: `[a-z](?=[A-Z])`, which consumes the lowercase
\* letter instead of looking behind it.
regexAlt2_Consuming(S, q) ==
  IF q + 1 < Len(S) /\ S[q + 1] \in LowerAZ /\ S[q + 2] \in UpperAZ
  THEN q + 1 ELSE NoMatch

\* `(?<=[a-z])(?=[A-Z])`
regexAlt2(S, q) ==
  IF q > 0 /\ q < Len(S) /\ S[q] \in LowerAZ /\ S[q + 1] \in UpperAZ
  THEN q ELSE NoMatch

\* A mistaken acronym rule: `(?<=[A-Z])(?=[A-Z])`, without the lowercase
\* letter that has to follow.
regexAlt3_AnyUpper(S, q) ==
  IF q > 0 /\ q < Len(S) /\ S[q] \in UpperAZ /\ S[q + 1] \in UpperAZ
  THEN q ELSE NoMatch

\* `(?<=[A-Z])(?=[A-Z][a-z])`
regexAlt3(S, q) ==
  IF /\ q > 0
     /\ q + 1 < Len(S)
     /\ S[q] \in UpperAZ
     /\ S[q + 1] \in UpperAZ
     /\ S[q + 2] \in LowerAZ
  THEN q ELSE NoMatch

\* A mistaken letter-digit rule: `(?<=[a-z])(?=[0-9])`.
regexAlt4_LowerOnly(S, q) ==
  IF q > 0 /\ q < Len(S) /\ S[q] \in LowerAZ /\ S[q + 1] \in Digit09
  THEN q ELSE NoMatch

\* `(?<=[a-zA-Z])(?=[0-9])`
regexAlt4(S, q) ==
  IF q > 0 /\ q < Len(S) /\ S[q] \in LetterAZ /\ S[q + 1] \in Digit09
  THEN q ELSE NoMatch

\* A mistaken digit-letter rule: `(?<=[0-9])(?=[a-z])`.
regexAlt5_LowerOnly(S, q) ==
  IF q > 0 /\ q < Len(S) /\ S[q] \in Digit09 /\ S[q + 1] \in LowerAZ
  THEN q ELSE NoMatch

\* `(?<=[0-9])(?=[a-zA-Z])`
regexAlt5(S, q) ==
  IF q > 0 /\ q < Len(S) /\ S[q] \in Digit09 /\ S[q + 1] \in LetterAZ
  THEN q ELSE NoMatch

\* The regex matched at exactly position q: the first alternative that
\* matches decides; the result is the end of the match, or NoMatch.
regex(S, q) ==
  IF regexAlt1(S, q) # NoMatch THEN regexAlt1(S, q)
  ELSE IF regexAlt2(S, q) # NoMatch THEN regexAlt2(S, q)
  ELSE IF regexAlt3(S, q) # NoMatch THEN regexAlt3(S, q)
  ELSE IF regexAlt4(S, q) # NoMatch THEN regexAlt4(S, q)
  ELSE regexAlt5(S, q)

\* String.prototype.split with a regex separator: p is the end of the last
\* separator, q the position tried, A the substrings collected so far.  A
\* match that ends at p (an empty match right after a separator) is skipped.
RECURSIVE SplitLoop(_, _, _, _)
SplitLoop(S, p, q, A) ==
  IF q >= Len(S) THEN Append(A, SubSeq(S, p + 1, Len(S)))
  ELSE LET e == regex(S, q) IN
       IF e = NoMatch \/ e = p
       THEN SplitLoop(S, p, q + 1, A)
       ELSE SplitLoop(S, e, e, Append(A, SubSeq(S, p + 1, q)))

split(S) ==
  IF Len(S) = 0
  THEN (IF regex(S, 0) # NoMatch THEN <<>> ELSE <<S>>)
  ELSE SplitLoop(S, 0, 0, <<>>)

\* A mistaken filter that keeps the empty substrings split produces.
filterWords_KeepAll(ws) == ws

\* .filter((word) => word.trim().length > 0)
filterWords(ws) == SelectSeq(ws, LAMBDA word : Len(trim(word)) > 0)

\* ------------------------------------------------------------ extractWords

extractWords(input) ==
  IF TypeOf(input) # "string" \/ Len(trim(input.value)) = 0
  THEN <<>>
  ELSE filterWords(split(input.value))

\* ------------------------------------------------------------- convertCase

\* The ten members of the CaseType union.
CaseTypes ==
  { "lowercase", "uppercase", "sentence", "title", "snake",
    "kebab", "camel", "pascal", "dot", "constant" }

\* Values a caller can pass past the type checker (`"invalid" as CaseType`).
InvalidCaseTypes == {"invalid", "not-a-real-case"}

CaseValues == CaseTypes \cup InvalidCaseTypes

\* What a call completes with: a returned string or a thrown Error.
Return(s) == [threw |-> FALSE, value |-> s, message |-> <<>>]

Throw(msg) == [threw |-> TRUE, value |-> <<>>, message |-> msg]

\* A mistaken helper that leaves the rest of the word as it was.
capitalize_KeepRest(word) == toUpperCase(charAt0(word)) \o slice1(word)

\* word.charAt(0).toUpperCase() + word.slice(1).toLowerCase()
capitalize(word) == toUpperCase(charAt0(word)) \o toLowerCase(slice1(word))

\* words.map((w) => w.toLowerCase())
mapToLowerCase(ws) == [i \in 1..Len(ws) |-> toLowerCase(ws[i])]

\* words.map((w) => w.toUpperCase())
mapToUpperCase(ws) == [i \in 1..Len(ws) |-> toUpperCase(ws[i])]

\* words.map(capitalize)
mapCapitalize(ws) == [i \in 1..Len(ws) |-> capitalize(ws[i])]

caseLowercase(words) == join(mapToLowerCase(words), <<" ">>)

caseUppercase(words) == join(mapToUpperCase(words), <<" ">>)

\* A mistaken sentence case that capitalizes every word.
caseSentence_Title(words) ==
  join([i \in 1..Len(words) |-> capitalize(words[i])], <<" ">>)

caseSentence(words) == capitalize(join(mapToLowerCase(words), <<" ">>))

\* Title case written without the space between the words.
caseTitle_NoSeparator(words) == join(mapCapitalize(words), <<>>)

caseTitle(words) == join(mapCapitalize(words), <<" ">>)

caseSnake(words) == join(mapToLowerCase(words), <<"_">>)

caseKebab(words) == join(mapToLowerCase(words), <<"-">>)

\* A mistaken camel case that capitalizes the first word as well.
caseCamel_CapFirst(words) ==
  join([i \in 1..Len(words) |-> capitalize(words[i])], <<>>)

caseCamel(words) ==
  IF Len(words) = 1
  THEN toLowerCase(words[1])
  ELSE toLowerCase(words[1]) \o join(mapCapitalize(Tail(words)), <<>>)

casePascal(words) == join(mapCapitalize(words), <<>>)

caseDot(words) == join(mapToLowerCase(words), <<".">>)

caseConstant(words) == join(mapToUpperCase(words), <<"_">>)

\* A mistaken default branch that returns instead of throwing.
unsupported_Silent(caseType) == Return(<<>>)

\* throw new Error(`Unsupported case type: ${_exhaustiveCheck}`)
unsupported(caseType) == Throw(<<"Unsupported case type: ", caseType>>)

\* The switch over caseType, reached with a non-empty word list.
switchCase(words, caseType) ==
  CASE caseType = "lowercase" -> Return(caseLowercase(words))
    [] caseType = "uppercase" -> Return(caseUppercase(words))
    [] caseType = "sentence" -> Return(caseSentence(words))
    [] caseType = "title" -> Return(caseTitle(words))
    [] caseType = "snake" -> Return(caseSnake(words))
    [] caseType = "kebab" -> Return(caseKebab(words))
    [] caseType = "camel" -> Return(caseCamel(words))
    [] caseType = "pascal" -> Return(casePascal(words))
    [] caseType = "dot" -> Return(caseDot(words))
    [] caseType = "constant" -> Return(caseConstant(words))
    [] OTHER -> unsupported(caseType)

\* A mistaken convertCase without the early return for an empty word list:
\* `words[0]!.toLowerCase()` then throws a TypeError in the camel branch.
convertCase_NoEmptyCheck(input, caseType) ==
  IF TypeOf(input) # "string" THEN Return(<<>>)
  ELSE LET words == extractWords(input) IN
       IF Len(words) = 0 /\ caseType = "camel"
       THEN Throw(<<"TypeError">>)
       ELSE switchCase(words, caseType)

convertCase(input, caseType) ==
  IF TypeOf(input) # "string" THEN Return(<<>>)
  ELSE LET words == extractWords(input) IN
       IF Len(words) = 0 THEN Return(<<>>)
       ELSE switchCase(words, caseType)

\* ------------------------------------------------------------------- state

VARIABLES
  pc        \* which call completed last

\* Case conversion (convert-case.ts).
VARIABLES
  input,     \* the value passed to the first call
  caseType,  \* the case type passed to convertCase
  words,     \* the word list extractWords returned for input
  result,    \* what convertCase completed with
  rewords,   \* extractWords of convertCase's returned string
  reresult   \* convertCase of convertCase's returned string, same case type

caseVars == <<input, caseType, words, result, rewords, reresult>>

\* The Khmer number words (src/lib/number.ts).
VARIABLES
  cachedValues,  \* the module-level Map<number, string>
  kmValue,       \* the number passed to the last numberToWordKm call
  kmSep,         \* the separator passed to that call
  kmResult       \* the string that call returned

kmVars == <<cachedValues, kmValue, kmSep, kmResult>>

\* slugify (slugify.ts).
VARIABLES
  slugValue,  \* the string passed to slugify
  slugResult  \* the string it returned

slugVars == <<slugValue, slugResult>>

\* Khmer digits (toKhmer and toASCII of src/lib/number.ts).  These strings
\* are sequences of char codes.
VARIABLES
  digitInput,  \* the string passed to toKhmer or toASCII
  digitResult  \* the string it returned

digitVars == <<digitInput, digitResult>>

\* compactObject (compact-object.ts).
VARIABLES
  compactInput,    \* the object passed to compactObject
  compactOptions,  \* the options passed with it
  compactResult    \* the object it returned

compactVars == <<compactInput, compactOptions, compactResult>>

\* VCardGenerator.generate (v-card.ts).
VARIABLES
  vcContact,  \* the contact passed to generate
  vcResult    \* the lines of the vCard it returned, or the error it threw

vcardVars == <<vcContact, vcResult>>

\* isTokenExpired (is.ts).
VARIABLES
  tokToken,   \* the token passed to isTokenExpired
  tokOffset,  \* offsetSeconds
  tokNow,     \* what Date.now() returns during the call, in milliseconds
  tokResult,  \* what the call returned, or that it threw
  tokEarlier  \* the clock time and the result of the call before this one

tokenVars == <<tokToken, tokOffset, tokNow, tokResult, tokEarlier>>

\* formatNumber (number.ts).
VARIABLES
  fmtValue,          \* the value passed to formatNumber
  fmtDecimalPlaces,  \* decimalPlaces
  fmtResult          \* the string it returned

formatVars == <<fmtValue, fmtDecimalPlaces, fmtResult>>

\* isValidComponentName (is.ts).
VARIABLES
  cnName,     \* the name passed to isValidComponentName
  cnOptions,  \* the options passed with it, defaults filled in
  cnResult    \* the ComponentValidationResult it returned

nameVars == <<cnName, cnOptions, cnResult>>

\* chunk, groupConsecutive, shuffle and sample (array-utils.ts).
VARIABLES
  arArray,   \* the array passed to the function, as the caller holds it
  arOp,      \* the function called
  arArg,     \* its second argument: size, the key function, or n
  arResult,  \* shuffle's local copy result
  arI,       \* shuffle's loop variable i
  arOut      \* what the call returned, or that it threw

arrayVars == <<arArray, arOp, arArg, arResult, arI, arOut>>

\* numberToWord (number.ts).
VARIABLES
  nwValue,  \* the number passed to numberToWord
  nwResult  \* the string it returned, as words and spaces

wordVars == <<nwValue, nwResult>>

\* flatten (flatten.ts).
VARIABLES
  flInput,      \* the object passed to flatten
  flSeparator,  \* separator
  flResult      \* the object it returned, as its entries in insertion order

flattenVars == <<flInput, flSeparator, flResult>>

\* compactObject on objects held by reference (compact-object.ts).
VARIABLES
  hpHeap,     \* the objects and arrays that exist, by address
  hpObj,      \* the address of the object passed to compactObject
  hpOptions,  \* the options passed with it
  hpResult    \* the address of the object it returned (0 before the call)

heapVars == <<hpHeap, hpObj, hpOptions, hpResult>>

\*+VARIABLES

vars ==
  << pc, caseVars, kmVars
     , slugVars
     , digitVars
     , compactVars
     , vcardVars
     , tokenVars
     , formatVars
     , nameVars
     , arrayVars
     , wordVars
     , flattenVars
     , heapVars
     \*+vars
  >>

\* The modules a run does not call stay as they are loaded: no call into
\* them is part of the run.
OffExcept(g) ==
  /\ IF g = "case" THEN TRUE
     ELSE /\ input = Str(<<>>)
          /\ caseType = "none"
          /\ words = <<>>
          /\ result = Return(<<>>)
          /\ rewords = <<>>
          /\ reresult = Return(<<>>)
  /\ IF g = "km" THEN TRUE
     ELSE /\ cachedValues = <<>>
          /\ kmValue = [nan |-> TRUE, int |-> 0, frac |-> <<>>]
          /\ kmSep = <<>>
          /\ kmResult = <<>>
  /\ IF g = "slug" THEN TRUE
     ELSE /\ slugValue = <<>>
          /\ slugResult = <<>>
  /\ IF g = "digit" THEN TRUE
     ELSE /\ digitInput = <<>>
          /\ digitResult = <<>>
  /\ IF g = "compact" THEN TRUE
     ELSE /\ compactInput = [key |-> "", t |-> "object", s |-> "", items |-> <<>>]
          /\ compactOptions = [compactArrays |-> TRUE, removeEmptyArrays |-> FALSE]
          /\ compactResult = [key |-> "", t |-> "object", s |-> "", items |-> <<>>]
  /\ IF g = "vcard" THEN TRUE
     ELSE /\ vcContact = [kind |-> "undefined"]
          /\ vcResult = [threw |-> FALSE, value |-> <<>>, message |-> <<>>]
  /\ IF g = "token" THEN TRUE
     ELSE /\ tokToken = [type |-> "undefined", value |-> <<>>]
          /\ tokOffset = 0
          /\ tokNow = 0
          /\ tokResult = [threw |-> FALSE, value |-> TRUE]
          /\ tokEarlier = [now |-> 0, result |-> [threw |-> FALSE, value |-> TRUE]]
  /\ IF g = "format" THEN TRUE
     ELSE /\ fmtValue = [type |-> "undefined", num |-> 0, den |-> 1]
          /\ fmtDecimalPlaces = 1
          /\ fmtResult = <<>>
  /\ IF g = "name" THEN TRUE
     ELSE /\ cnName = [type |-> "undefined", value |-> <<>>]
          /\ cnOptions = [allowEmpty |-> FALSE, minLength |-> 1, maxLength |-> 50]
          /\ cnResult = [valid |-> FALSE, errors |-> <<>>]
  /\ IF g = "array" THEN TRUE
     ELSE /\ arArray = <<>>
          /\ arOp = "none"
          /\ arArg = 0
          /\ arResult = <<>>
          /\ arI = 0
          /\ arOut = [threw |-> FALSE, value |-> <<>>]
  /\ IF g = "word" THEN TRUE
     ELSE /\ nwValue = [nan |-> TRUE, int |-> 0, frac |-> <<>>]
          /\ nwResult = <<>>
  /\ IF g = "flatten" THEN TRUE
     ELSE /\ flInput = [t |-> "object", v |-> 0, items |-> <<>>]
          /\ flSeparator = <<>>
          /\ flResult = <<>>
  /\ IF g = "heap" THEN TRUE
     ELSE 
          /\ hpHeap = <<>>
          /\ hpObj = 0
          /\ hpOptions = [compactArrays |-> TRUE, removeEmptyArrays |-> FALSE]
          /\ hpResult = 0
  \*+Off

FrameExcept(g) ==
  /\ IF g = "case" THEN TRUE ELSE UNCHANGED caseVars
  /\ IF g = "km" THEN TRUE ELSE UNCHANGED kmVars
  /\ IF g = "slug" THEN TRUE ELSE UNCHANGED slugVars
  /\ IF g = "digit" THEN TRUE ELSE UNCHANGED digitVars
  /\ IF g = "compact" THEN TRUE ELSE UNCHANGED compactVars
  /\ IF g = "vcard" THEN TRUE ELSE UNCHANGED vcardVars
  /\ IF g = "token" THEN TRUE ELSE UNCHANGED tokenVars
  /\ IF g = "format" THEN TRUE ELSE UNCHANGED formatVars
  /\ IF g = "name" THEN TRUE ELSE UNCHANGED nameVars
  /\ IF g = "array" THEN TRUE ELSE UNCHANGED arrayVars
  /\ IF g = "word" THEN TRUE ELSE UNCHANGED wordVars
  /\ IF g = "flatten" THEN TRUE ELSE UNCHANGED flattenVars
  /\ IF g = "heap" THEN TRUE ELSE UNCHANGED heapVars
  \*+Frame

Init ==
  /\ OffExcept("case")
  /\ pc = "start"
  /\ input \in Inputs
  /\ caseType = "none"
  /\ words = <<>>
  /\ result = Return(<<>>)
  /\ rewords = <<>>
  /\ reresult = Return(<<>>)

\* extractWords(input)
ExtractWords ==
  /\ pc = "start"
  /\ words' = extractWords(input)
  /\ pc' = "extracted"
  /\ UNCHANGED <<input, caseType, result, rewords, reresult>>
  /\ FrameExcept("case")

\* convertCase(input, c); words is its local of the same name.
ConvertCase ==
  /\ pc = "start"
  /\ \E c \in CaseValues :
       /\ caseType' = c
       /\ result' = convertCase(input, c)
  /\ words' = IF TypeOf(input) = "string" THEN extractWords(input) ELSE <<>>
  /\ pc' = "converted"
  /\ UNCHANGED <<input, rewords, reresult>>
  /\ FrameExcept("case")

\* extractWords(convertCase(input, caseType)): the returned string fed back.
ReExtract ==
  /\ pc = "converted"
  /\ ~result.threw
  /\ rewords' = extractWords(Str(result.value))
  /\ pc' = "reextracted"
  /\ UNCHANGED <<input, caseType, words, result, reresult>>
  /\ FrameExcept("case")

Next == ExtractWords \/ ConvertCase \/ ReExtract

Spec == Init /\ [][Next]_vars

\* convertCase(convertCase(input, caseType), caseType): the returned string
\* converted again to the same case.
ReConvert ==
  /\ pc = "converted"
  /\ ~result.threw
  /\ reresult' = convertCase(Str(result.value), caseType)
  /\ pc' = "reconverted"
  /\ UNCHANGED <<input, caseType, words, result, rewords>>
  /\ FrameExcept("case")

\* The runs that convert an input and convert the result again.
SpecReconvert == Init /\ [][ConvertCase \/ ReConvert]_vars

\* ------------------------------------------------- vocabulary of the claims

IsString(v) == TypeOf(v) = "string"

\* The string has at least one ASCII letter or digit.
HasAlnum(v) == IsString(v) /\ \E i \in 1..Len(v.value) : v.value[i] \in Alnum

\* The string has a code unit that is no ASCII letter or digit.
HasSeparator(v) ==
  IsString(v) /\ \E i \in 1..Len(v.value) : v.value[i] \notin Alnum

\* The joiner the table gives for a case type.
Joiner(c) ==
  CASE c \in {"lowercase", "uppercase", "sentence", "title"} -> <<" ">>
    [] c \in {"snake", "constant"} -> <<"_">>
    [] c = "kebab" -> <<"-">>
    [] c = "dot" -> <<".">>
    [] OTHER -> <<>>

LowerChar(ch) == IF ch \in DOMAIN LowerOf THEN LowerOf[ch] ELSE ch

UpperChar(ch) == IF ch \in DOMAIN UpperOf THEN UpperOf[ch] ELSE ch

\* The k-th character of word w as the table's per-word transform leaves it.
TableChar(c, w, k) ==
  CASE c \in {"lowercase", "snake", "kebab", "dot"} -> LowerChar(w[k])
    [] c \in {"uppercase", "constant"} -> UpperChar(w[k])
    [] OTHER -> IF k = 1 THEN UpperChar(w[k]) ELSE LowerChar(w[k])

\* Where word i starts (0-based) in the words joined by a joiner of length jl.
RECURSIVE Offset(_, _, _)
Offset(ws, i, jl) ==
  IF i = 1 THEN 0 ELSE Offset(ws, i - 1, jl) + Len(ws[i - 1]) + jl

\* out is the words ws laid out in order, word i with character k given by
\* ch(i, k), and the joiner J between every two adjacent words.
LaidOut(out, ws, J, ch(_, _)) ==
  LET n == Len(ws)
      jl == Len(J)
  IN /\ n > 0
     /\ Len(out) = Offset(ws, n, jl) + Len(ws[n])
     /\ \A i \in 1..n :
          /\ \A k \in 1..Len(ws[i]) : out[Offset(ws, i, jl) + k] = ch(i, k)
          /\ i < n =>
               \A m \in 1..jl : out[Offset(ws, i, jl) + Len(ws[i]) + m] = J[m]

\* The tokenization by rules: a cut lies between S[i] and S[i+1] (1-based).
CutAfter(S, i) ==
  \/ S[i] \in LowerAZ /\ S[i + 1] \in UpperAZ
  \/ /\ S[i] \in UpperAZ
     /\ S[i + 1] \in UpperAZ
     /\ i + 2 <= Len(S)
     /\ S[i + 2] \in LowerAZ
  \/ S[i] \in LetterAZ /\ S[i + 1] \in Digit09
  \/ S[i] \in Digit09 /\ S[i + 1] \in LetterAZ

TokenFirst(S, i) ==
  S[i] \in Alnum /\ (i = 1 \/ S[i - 1] \notin Alnum \/ CutAfter(S, i - 1))

TokenLast(S, j) ==
  S[j] \in Alnum /\ (j = Len(S) \/ S[j + 1] \notin Alnum \/ CutAfter(S, j))

RuleTokens(S) ==
  LET firsts == { i \in 1..Len(S) : TokenFirst(S, i) }
      first(k) ==
        CHOOSE i \in firsts : Cardinality({ j \in firsts : j <= i }) = k
      last(i) ==
        CHOOSE j \in i..Len(S) :
          TokenLast(S, j) /\ \A m \in i..(j - 1) : ~TokenLast(S, m)
  IN [k \in 1..Cardinality(firsts) |-> SubSeq(S, first(k), last(first(k)))]

Chars(s) == { s[i] : i \in 1..Len(s) }

\* extractWords("HTTPRequest") and extractWords("2ndEdition")
WordsOfHTTPRequest ==
  extractWords(Str(<<"H", "T", "T", "P", "R", "e", "q", "u", "e", "s", "t">>))

WordsOf2ndEdition ==
  extractWords(Str(<<"2", "n", "d", "E", "d", "i", "t", "i", "o", "n">>))

\* ------------------------------------------------------------------ claims

\* C1 as stated: for every string input, the empty and separator-only ones
\* included, convertCase with a caseType outside the ten recognized values
\* throws 'Unsupported case type' naming the value.
C1_ThrowsForEveryString ==
  (pc = "converted" /\ IsString(input) /\ caseType \notin CaseTypes)
    => /\ result.threw
       /\ result.message = <<"Unsupported case type: ", caseType>>

\* C1 amended: with a caseType outside the ten recognized values convertCase
\* throws 'Unsupported case type' naming the value exactly for the strings
\* that have an ASCII letter or digit; for the empty string and the strings
\* without one it returns the empty string and does not throw.
C1_ThrowsWhenWordsExist ==
  (pc = "converted" /\ IsString(input) /\ caseType \notin CaseTypes)
    => IF HasAlnum(input)
       THEN /\ result.threw
            /\ result.message = <<"Unsupported case type: ", caseType>>
       ELSE result = Return(<<>>)

C1_Witness ==
  /\ pc = "converted"
  /\ caseType = "not-a-real-case"
  /\ HasAlnum(input)
  /\ HasSeparator(input)
  /\ result.threw

\* C2: with one of the ten case types convertCase never throws, whatever the
\* input value, and returns the empty string exactly when extractWords(input)
\* is empty, which is exactly when the input is no string or a string without
\* an ASCII letter or digit.
C2_NeverThrowsEmptyIffNoWords ==
  (pc = "converted" /\ caseType \in CaseTypes)
    => /\ ~result.threw
       /\ (result.value = <<>>) <=> (words = <<>>)
       /\ (words = <<>>) <=> ~HasAlnum(input)

C2_Witness ==
  /\ pc = "converted"
  /\ caseType = "camel"
  /\ IsString(input)
  /\ Len(input.value) > 1
  /\ ~HasAlnum(input)
  /\ Len(trim(input.value)) > 0
  /\ result = Return(<<>>)

\* C3: every word extractWords returns is non-empty and made of ASCII letters
\* and digits only.
C3_WordsNonEmptyAlnum ==
  (pc = "extracted")
    => \A i \in 1..Len(words) :
         Len(words[i]) > 0 /\ Chars(words[i]) \subseteq Alnum

C3_Witness ==
  /\ pc = "extracted"
  /\ Len(words) = 2
  /\ "é" \in Chars(input.value)
  /\ "_" \in Chars(input.value)

\* C4: extractWords returns the rule tokenization: runs of separators delimit,
\* and cuts lie exactly at lower-upper, upper-(upper lower), letter-digit and
\* digit-letter boundaries; 'HTTPRequest' and '2ndEdition' split as stated.
C4_WordsAreRuleTokens ==
  /\ (pc = "extracted" /\ IsString(input)) => words = RuleTokens(input.value)
  /\ WordsOfHTTPRequest
       = << <<"H", "T", "T", "P">>, <<"R", "e", "q", "u", "e", "s", "t">> >>
  /\ WordsOf2ndEdition
       = << <<"2">>, <<"n", "d">>, <<"E", "d", "i", "t", "i", "o", "n">> >>

C4_Witness ==
  /\ pc = "extracted"
  /\ input = Str(<<"B", "B", "a", "1">>)
  /\ words = << <<"B">>, <<"B", "a">>, <<"1">> >>

\* C5: for lowercase, uppercase, title, snake, kebab, pascal, dot and constant
\* the result is the extracted words in order, each transformed as the table
\* says, with the table's joiner between adjacent words.
C5_TableCases ==
  ( /\ pc = "converted"
    /\ caseType \in {"lowercase", "uppercase", "title", "snake",
                     "kebab", "pascal", "dot", "constant"}
    /\ IsString(input)
    /\ words # <<>> )
    => /\ ~result.threw
       /\ LaidOut(result.value, words, Joiner(caseType),
                  LAMBDA i, k : TableChar(caseType, words[i], k))

C5_Witness ==
  /\ pc = "converted"
  /\ caseType = "title"
  /\ words = << <<"B", "B">>, <<"a">> >>
  /\ result.value = <<"B", "b", " ", "A">>

\* C6: for camel the result is the first word lowercased followed, with no
\* joiner, by every later word capitalized; a single word comes back
\* lowercased in full, without an uppercase character.
C6_Camel ==
  (pc = "converted" /\ caseType = "camel" /\ IsString(input) /\ words # <<>>)
    => /\ ~result.threw
       /\ LaidOut(result.value, words, <<>>,
                  LAMBDA i, k :
                    IF i > 1 /\ k = 1 THEN UpperChar(words[i][k])
                    ELSE LowerChar(words[i][k]))
       /\ Len(words) = 1 =>
            /\ result.value = toLowerCase(words[1])
            /\ Chars(result.value) \cap UpperAZ = {}

C6_Witness ==
  /\ pc = "converted"
  /\ caseType = "camel"
  /\ words = << <<"B", "B">> >>
  /\ result.value = <<"b", "b">>

\* C7: for sentence the result is convertCase(input, 'lowercase') with its
\* first character uppercased: the lowercased words joined by single spaces,
\* and no uppercase character after the first.
C7_Sentence ==
  (pc = "converted" /\ caseType = "sentence" /\ IsString(input))
    => LET low == convertCase(input, "lowercase").value
           out == result.value
       IN /\ ~result.threw
          /\ Len(out) = Len(low)
          /\ \A i \in 1..Len(out) :
               /\ out[i] = IF i = 1 THEN UpperChar(low[i]) ELSE low[i]
               /\ i > 1 => out[i] \notin UpperAZ
          /\ words # <<>> =>
               LaidOut(low, words, <<" ">>,
                       LAMBDA i, k : LowerChar(words[i][k]))

C7_Witness ==
  /\ pc = "converted"
  /\ caseType = "sentence"
  /\ Len(words) = 2
  /\ result.value = <<"A", " ", "b">>

\* C8: for each of the ten case types every character of the result is an
\* ASCII letter, a digit or the joiner, and the joiner stands only singly
\* between two words: never first, never last, never twice in a row.
C8_OnlyWordCharsAndSingleJoiners ==
  (pc = "converted" /\ caseType \in CaseTypes)
    => LET out == result.value
           J == Chars(Joiner(caseType))
       IN /\ ~result.threw
          /\ Chars(out) \subseteq Alnum \cup J
          /\ out # <<>> => out[1] \notin J /\ out[Len(out)] \notin J
          /\ \A i \in 1..(Len(out) - 1) : ~(out[i] \in J /\ out[i + 1] \in J)

C8_Witness ==
  /\ pc = "converted"
  /\ caseType = "snake"
  /\ input = Str(<<"_", "a", "_", "_">>)
  /\ result.value = <<"a">>

\* C9: for snake, kebab, dot and constant, extractWords of convertCase's
\* result has as many words as extractWords of the input.
C9_SameWordCount ==
  ( /\ pc = "reextracted"
    /\ caseType \in {"snake", "kebab", "dot", "constant"}
    /\ IsString(input) )
    => Len(rewords) = Len(words)

C9_Witness ==
  /\ pc = "reextracted"
  /\ caseType = "constant"
  /\ ~HasSeparator(input)
  /\ Len(words) = 3
  /\ Len(rewords) = 3

\* C10: for lowercase, uppercase, sentence, title, snake, kebab and dot,
\* extractWords of convertCase's result is the word sequence of the input,
\* compared without regard to case.
C10_SameWordsIgnoringCase ==
  ( /\ pc = "reextracted"
    /\ caseType \in {"lowercase", "uppercase", "sentence", "title",
                     "snake", "kebab", "dot"}
    /\ IsString(input) )
    => /\ Len(rewords) = Len(words)
       /\ \A i \in 1..Len(words) :
            toLowerCase(rewords[i]) = toLowerCase(words[i])

C10_Witness ==
  /\ pc = "reextracted"
  /\ caseType = "title"
  /\ ~HasSeparator(input)
  /\ Len(words) = 3
  /\ rewords # words
  /\ Len(rewords) = 3

\* The words written one after the other.
RECURSIVE Concat(_)
Concat(ws) == IF ws = <<>> THEN <<>> ELSE Head(ws) \o Concat(Tail(ws))

\* C11: the words of extractWords(s), written one after the other in order,
\* are s with every character outside [A-Za-z0-9] deleted: no alphanumeric
\* character is lost, duplicated or moved.
C11_WordsConcatIsAlnumProjection ==
  (pc = "extracted" /\ IsString(input))
    => Concat(words) = SelectSeq(input.value, LAMBDA c : c \in Alnum)

C11_Witness ==
  /\ pc = "extracted"
  /\ input = Str(<<"a", "B", "_", "1">>)
  /\ words = << <<"a">>, <<"B">>, <<"1">> >>

\* C12: extractWords completes for every input value, and returns the empty
\* sequence for a non-string, the empty string, a whitespace-only string and
\* a string without an ASCII letter or digit.
C12_EmptyForNoAlnum ==
  /\ pc = "start" => Len(extractWords(input)) \in Nat
  /\ (pc = "extracted" /\ ~HasAlnum(input)) => words = <<>>

C12_Witness ==
  /\ pc = "extracted"
  /\ input = Str(<<"é", ".">>)
  /\ words = <<>>

\* ------------------------------------------------------- Khmer number words
\* A string is a sequence of pieces: Khmer words and separators.

SINGLE_DIGITS_KM ==
  << "សូន្យ", "មួយ", "ពីរ", "បី", "បួន", "ប្រាំ",
     "ប្រាំមួយ", "ប្រាំពីរ", "ប្រាំបី", "ប្រាំបួន" >>

MULTIPLE_DIGITS_KM ==
  << "", "ដប់", "ម្ភៃ", "សាមសិប", "សែសិប", "ហាសិប",
     "ហុកសិប", "ចិតសិប", "ប៉ែតសិប", "កៅសិប" >>

SUFFIX_MAP ==
  [i \in {2, 3, 4, 5, 6, 9, 12} |->
     CASE i = 2 -> "រយ"
       [] i = 3 -> "ពាន់"
       [] i = 4 -> "ម៉ឺន"
       [] i = 5 -> "សែន"
       [] i = 6 -> "លាន"
       [] i = 9 -> "ប៊ីលាន"
       [] i = 12 -> "ទ្រីលាន"]

\* A string literal as pieces: "" is the empty sequence.
Lit(s) == IF s = "" THEN <<>> ELSE <<s>>

\* Math.floor(Math.log10(value)) for value >= 1
RECURSIVE Log10Floor(_)
Log10Floor(value) == IF value < 10 THEN 0 ELSE 1 + Log10Floor(value \div 10)

\* 10 ** i
RECURSIVE Pow10(_)
Pow10(i) == IF i = 0 THEN 1 ELSE 10 * Pow10(i - 1)

\* while (!SUFFIX_MAP.has(i) && i > 0) i--
RECURSIVE SuffixIndex(_)
SuffixIndex(i) ==
  IF i \notin DOMAIN SUFFIX_MAP /\ i > 0 THEN SuffixIndex(i - 1) ELSE i

\* SUFFIX_MAP.get(i); suf ? suf : ""
SuffixOf(i) == IF i \in DOMAIN SUFFIX_MAP THEN Lit(SUFFIX_MAP[i]) ELSE <<>>

EmptyCache == <<>>

\* cachedValues.get(key), with undefined read as the empty (falsy) string.
getCachedValue(cache, key) ==
  IF key \in DOMAIN cache THEN cache[key] ELSE <<>>

\* cachedValues.set(key, value)
setCachedValue(cache, key, value) ==
  [k \in DOMAIN cache \cup {key} |-> IF k = key THEN value ELSE cache[k]]

\* integer(value, sep) run on the cache: the string returned and the cache
\* after the call.
RECURSIVE integer(_, _, _)
integer(value, sep, cache) ==
  IF value < 0
  THEN LET abs == integer(-value, sep, cache)
       IN [result |-> <<"*ដក*">> \o abs.result, cache |-> abs.cache]
  ELSE
  IF getCachedValue(cache, value) # <<>>
  THEN [result |-> getCachedValue(cache, value), cache |-> cache]
  ELSE
  LET computed ==
        IF value < 10
        THEN [result |-> Lit(SINGLE_DIGITS_KM[value + 1]), cache |-> cache]
        ELSE IF value < 100
        THEN LET r == value % 10
                 tens == Lit(MULTIPLE_DIGITS_KM[(value \div 10) + 1])
             IN IF r = 0
                THEN [result |-> tens, cache |-> cache]
                ELSE LET unit == integer(r, sep, cache)
                     IN [result |-> tens \o unit.result, cache |-> unit.cache]
        ELSE LET i == SuffixIndex(Log10Floor(value))
                 d == Pow10(i)
                 pre == integer(value \div d, sep, cache)
                 suf == SuffixOf(i)
                 r == value % d
             IN IF r = 0
                THEN [result |-> pre.result \o suf, cache |-> pre.cache]
                ELSE LET rest == integer(r, sep, pre.cache)
                     IN [result |-> pre.result \o suf \o sep \o rest.result,
                         cache |-> rest.cache]
  IN [result |-> computed.result,
      cache |-> setCachedValue(computed.cache, value, computed.result)]

\* A number: NaN, or an integer part with the digits after the decimal point
\* (none for an integer).
NaN == [nan |-> TRUE, int |-> 0, frac |-> <<>>]

Num(n, digits) == [nan |-> FALSE, int |-> n, frac |-> digits]

\* right.split("").map((char) => integer(+char)).join(sep): the digits are
\* converted left to right with integer's default separator "".
RECURSIVE fractionWords(_, _, _)
fractionWords(digits, sep, cache) ==
  IF digits = <<>> THEN [result |-> <<>>, cache |-> cache]
  ELSE LET first == integer(Head(digits), <<>>, cache)
           rest == fractionWords(Tail(digits), sep, first.cache)
       IN [result |-> IF Tail(digits) = <<>> THEN first.result
                      ELSE first.result \o sep \o rest.result,
           cache |-> rest.cache]

numberToWordKm(value, sep, del, cache) ==
  IF value.nan THEN [result |-> <<>>, cache |-> cache]
  ELSE IF value.frac = <<>> THEN integer(value.int, sep, cache)
  ELSE LET word == fractionWords(value.frac, sep, cache)
           whole == integer(value.int, sep, word.cache)
       IN [result |-> whole.result \o del \o word.result, cache |-> whole.cache]

\* Largest integer passed to numberToWordKm.
MaxKmInt == 102

\* The integers passed: zero, a two-digit number, a negative number and the
\* three-digit numbers up to MaxKmInt.
KmInts == {0, 21, -101} \cup 100..MaxKmInt

KmValues ==
  {NaN} \cup { Num(n, <<>>) : n \in KmInts } \cup {Num(101, <<5>>)}

\* Separators passed: the default " " and "-".
KmSeps == {<<" ">>, <<"-">>}

\* The default decimal delimiter.
KmDel == <<" ក្បៀស ">>

KmInit ==
  /\ OffExcept("km")
  /\ pc = "km"
  /\ cachedValues = EmptyCache
  /\ kmValue = NaN
  /\ kmSep = <<>>
  /\ kmResult = <<>>

\* numberToWordKm(v, sep)
NumberToWordKm ==
  /\ pc \in {"km", "kmCalled"}
  /\ pc' = "kmCalled"
  /\ \E v \in KmValues, sep \in KmSeps :
       LET call == numberToWordKm(v, sep, KmDel, cachedValues)
       IN /\ kmValue' = v
          /\ kmSep' = sep
          /\ kmResult' = call.result
          /\ cachedValues' = call.cache
  /\ FrameExcept("km")

SpecKm == KmInit /\ [][NumberToWordKm]_vars

\* C13: every numberToWordKm(v, sep) call with a non-negative integer v
\* returns what the computation returns on an empty cache with that sep,
\* whatever the earlier calls were.
C13_ResultUsesSepOfCall ==
  (pc = "kmCalled" /\ ~kmValue.nan /\ kmValue.frac = <<>> /\ kmValue.int >= 0)
    => kmResult = integer(kmValue.int, kmSep, EmptyCache).result

\* ------------------------------------------------------------------ slugify

\* U+0301, the combining acute accent, as one code unit.
CombiningAcute == "U+0301"

\* [\u0300-\u036f], as far as the model writes them.
CombiningMarks == {CombiningAcute}

\* String.prototype.normalize("NFD"): an accented letter becomes its base
\* letter followed by the accent.
RECURSIVE normalizeNFD(_)
normalizeNFD(s) ==
  IF s = <<>> THEN <<>>
  ELSE (CASE Head(s) = "é" -> <<"e", CombiningAcute>>
          [] Head(s) = "É" -> <<"E", CombiningAcute>>
          [] OTHER -> <<Head(s)>>) \o normalizeNFD(Tail(s))

\* .replace(/[\u0300-\u036f]/g, "")
removeAccents(s) == SelectSeq(s, LAMBDA c : c \notin CombiningMarks)

\* .replace(/&/g, " ")
replaceAmpersand(s) == [i \in 1..Len(s) |-> IF s[i] = "&" THEN " " ELSE s[i]]

\* .replace(/[^a-z0-9 ]/g, "")
removeNonSlugChars(s) ==
  SelectSeq(s, LAMBDA c : c \in LowerAZ \cup Digit09 \cup {" "})

\* .replace(/\s+/g, "-"): every maximal run of white space becomes one dash.
RECURSIVE replaceSpaceRuns(_)
replaceSpaceRuns(s) ==
  IF s = <<>> THEN <<>>
  ELSE IF Head(s) \in WhiteSpace
  THEN <<"-">> \o replaceSpaceRuns(TrimStart(s))
  ELSE <<Head(s)>> \o replaceSpaceRuns(Tail(s))

slugify(value) ==
  IF value = <<>> THEN <<>>
  ELSE replaceSpaceRuns(
         removeNonSlugChars(
           replaceAmpersand(
             trim(toLowerCase(removeAccents(normalizeNFD(value)))))))

\* Longest string passed to slugify.
MaxSlugLen == 3

\* Code units of the strings passed to slugify.
SlugAlphabet == {"a", "B", "1", " ", "\t", "&", "$", "-", "é"}

SlugValues == UNION { [1..n -> SlugAlphabet] : n \in 0..MaxSlugLen }

SlugInit ==
  /\ OffExcept("slug")
  /\ pc = "slug"
  /\ slugValue \in SlugValues
  /\ slugResult = <<>>

\* slugify(slugValue)
Slugify ==
  /\ pc = "slug"
  /\ pc' = "slugged"
  /\ slugResult' = slugify(slugValue)
  /\ UNCHANGED slugValue
  /\ FrameExcept("slug")

SpecSlug == SlugInit /\ [][Slugify]_vars

\* C14: slugify returns the empty string or runs of lowercase ASCII letters
\* and digits separated by single dashes: only a-z, 0-9 and '-', no two
\* dashes in a row, no dash first or last.
C14_SlugShape ==
  (pc = "slugged")
    => LET out == slugResult
       IN /\ Chars(out) \subseteq LowerAZ \cup Digit09 \cup {"-"}
          /\ \A i \in 1..(Len(out) - 1) : ~(out[i] = "-" /\ out[i + 1] = "-")
          /\ out # <<>> => out[1] # "-" /\ out[Len(out)] # "-"

\* ------------------------------------------------------------ Khmer digits

\* String.fromCharCode(n): n is taken modulo 2^16.
fromCharCode(n) == n % 65536

\* f(s, l, r, op): every char code c with (c - l) * (c - r) < 1 is moved by
\* -op * 6064.
f(s, l, r, op) ==
  LET opConst == op * 6064
  IN [i \in 1..Len(s) |->
        LET charCode == s[i]
            diff == charCode - l
            newCharCode ==
              charCode - opConst * (IF diff * (charCode - r) < 1 THEN 1 ELSE 0)
        IN fromCharCode(newCharCode)]

toASCII(s) == f(s, 6112, 6121, 1)

toKhmer(s) == f(s, 40, 57, -1)

\* Longest string passed to toKhmer and toASCII.
MaxDigitLen == 2

\* Char codes of the strings passed: "'", "(", ".", "/", "0", "5", "9", ":",
\* "a", and the Khmer digits zero and nine with their neighbours.
DigitCodes == {39, 40, 46, 47, 48, 53, 57, 58, 97, 6111, 6112, 6121, 6122}

DigitInputs == UNION { [1..n -> DigitCodes] : n \in 0..MaxDigitLen }

DigitInit ==
  /\ OffExcept("digit")
  /\ pc = "digit"
  /\ digitInput \in DigitInputs
  /\ digitResult = <<>>

\* toKhmer(digitInput)
ToKhmer ==
  /\ pc = "digit"
  /\ pc' = "toKhmer"
  /\ digitResult' = toKhmer(digitInput)
  /\ UNCHANGED digitInput
  /\ FrameExcept("digit")

\* toASCII(digitInput)
ToASCII ==
  /\ pc = "digit"
  /\ pc' = "toASCII"
  /\ digitResult' = toASCII(digitInput)
  /\ UNCHANGED digitInput
  /\ FrameExcept("digit")

DigitNext == ToKhmer \/ ToASCII

SpecDigit == DigitInit /\ [][DigitNext]_vars

\* C15: toKhmer replaces each ASCII digit (char codes 48..57) by the Khmer
\* digit of the same value (6112..6121) and leaves every other character as
\* it is.
C15_OnlyDigitsChange ==
  (pc = "toKhmer")
    => /\ Len(digitResult) = Len(digitInput)
       /\ \A i \in 1..Len(digitInput) :
            digitResult[i] =
              IF digitInput[i] \in 48..57
              THEN 6112 + (digitInput[i] - 48)
              ELSE digitInput[i]

\* ------------------------------------------------------------ compactObject
\* A value is a node: the key it is stored under ("" for an array item and
\* for the outermost object), its type, the text of a string, and the items
\* of an array or the entries of an object, in order.

Prim(k, t, s) == [key |-> k, t |-> t, s |-> s, items |-> <<>>]

ArrayOf(k, items) == [key |-> k, t |-> "array", s |-> "", items |-> items]

ObjectOf(k, entries) == [key |-> k, t |-> "object", s |-> "", items |-> entries]

null == Prim("", "null", "")

\* isEmptyValue: value === "" || value === undefined || value === null
isEmptyValue(value) ==
  \/ value.t = "string" /\ value.s = ""
  \/ value.t = "undefined"
  \/ value.t = "null"

\* Array.isArray(value)
isArray(value) == value.t = "array"

\* item && typeof item === "object" && !Array.isArray(item)
isPlainObject(value) == value.t = "object"

\* compactObject(obj, options): the entries of obj are visited in order; the
\* returned node keeps the key obj is stored under.
RECURSIVE compactObject(_, _)
compactObject(obj, options) ==
  LET compactedArray(value) ==
        LET kept == SelectSeq(value.items, LAMBDA item : ~isEmptyValue(item))
            mapped ==
              [i \in 1..Len(kept) |->
                 IF isPlainObject(kept[i])
                 THEN LET compactedItem == compactObject(kept[i], options)
                      IN IF Len(compactedItem.items) > 0
                         THEN compactedItem ELSE null
                 ELSE kept[i]]
        IN SelectSeq(mapped, LAMBDA item : item # null)
      \* What the loop body adds to result for one entry: nothing or the entry.
      entry(value) ==
        IF isEmptyValue(value) THEN <<>>
        ELSE IF isArray(value)
        THEN IF options.compactArrays
             THEN IF ~options.removeEmptyArrays \/ Len(compactedArray(value)) > 0
                  THEN <<ArrayOf(value.key, compactedArray(value))>>
                  ELSE <<>>
             ELSE <<value>>
        ELSE IF isPlainObject(value)
        THEN LET compactedNested == compactObject(value, options)
             IN IF Len(compactedNested.items) > 0
                THEN <<compactedNested>> ELSE <<>>
        ELSE <<value>>
  IN ObjectOf(obj.key,
              Concat([i \in 1..Len(obj.items) |-> entry(obj.items[i])]))

\* How deep the values of the enumerated objects nest.
MaxDepth == 3

\* The values that are no object and no array: "", "x", null and undefined.
Primitives ==
  { Prim("", "string", ""), Prim("", "string", "x"),
    Prim("", "null", ""), Prim("", "undefined", "") }

WithKey(k, value) == [value EXCEPT !.key = k]

\* The values nesting at most d deep; arrays hold at most one item and
\* objects at most the key "a".
RECURSIVE ValuesUpTo(_)
ValuesUpTo(d) ==
  IF d = 0 THEN Primitives
  ELSE LET inner == ValuesUpTo(d - 1)
       IN Primitives
          \cup {ArrayOf("", <<>>)} \cup { ArrayOf("", <<v>>) : v \in inner }
          \cup {ObjectOf("", <<>>)}
          \cup { ObjectOf("", <<WithKey("a", v)>>) : v \in inner }

CompactInputs ==
  {ObjectOf("", <<>>)}
    \cup { ObjectOf("", <<WithKey("a", v)>>) : v \in ValuesUpTo(MaxDepth - 1) }

CompactInit ==
  /\ OffExcept("compact")
  /\ pc = "compact"
  /\ compactInput \in CompactInputs
  /\ compactOptions \in [compactArrays : BOOLEAN, removeEmptyArrays : BOOLEAN]
  /\ compactResult = ObjectOf("", <<>>)

\* compactObject(compactInput, compactOptions)
CompactObject ==
  /\ pc = "compact"
  /\ pc' = "compacted"
  /\ compactResult' = compactObject(compactInput, compactOptions)
  /\ UNCHANGED <<compactInput, compactOptions>>
  /\ FrameExcept("compact")

SpecCompact == CompactInit /\ [][CompactObject]_vars

\* The values held inside v, at any depth (v itself is not one of them).
RECURSIVE Inside(_)
Inside(v) ==
  UNION { {v.items[i]} \cup Inside(v.items[i]) : i \in 1..Len(v.items) }

\* C16: with the default options the result holds at no depth, inside
\* objects, arrays and arrays of arrays, a value that is '', null or
\* undefined, nor an object without keys.
C16_NoEmptyValueAtAnyDepth ==
  ( /\ pc = "compacted"
    /\ compactOptions = [compactArrays |-> TRUE, removeEmptyArrays |-> FALSE] )
    => \A v \in Inside(compactResult) :
         ~isEmptyValue(v) /\ ~(v.t = "object" /\ v.items = <<>>)

\* C17: with removeEmptyArrays true no key of the result, at any object
\* depth, holds an empty array, whether compactArrays is true or false.
C17_NoEmptyArrayUnderAKey ==
  (pc = "compacted" /\ compactOptions.removeEmptyArrays)
    => \A v \in {compactResult} \cup Inside(compactResult) :
         v.t = "object"
           => \A i \in 1..Len(v.items) :
                ~(v.items[i].t = "array" /\ v.items[i].items = <<>>)

\* ------------------------------------------------- VCardGenerator.generate

\* An absent property of the contact.
undefined == [type |-> "undefined", value |-> <<>>]

\* A string[] value.
StrArray(items) == [type |-> "array", value |-> items]

\* JavaScript truthiness of a property: undefined and '' are falsy, every
\* other string and every array (the empty one too) is truthy.
Truthy(v) ==
  CASE v.type = "undefined" -> FALSE
    [] v.type = "string" -> Len(v.value) > 0
    [] OTHER -> TRUE

\* value.replace(/c/g, r)
RECURSIVE replaceAll(_, _, _)
replaceAll(s, c, r) ==
  IF s = <<>> THEN <<>>
  ELSE (IF Head(s) = c THEN r ELSE <<Head(s)>>) \o replaceAll(Tail(s), c, r)

escapeVCard(value) ==
  IF value = <<>> THEN <<>>
  ELSE replaceAll(replaceAll(replaceAll(replaceAll(replaceAll(value,
         "\\", <<"\\", "\\">>), "\n", <<"\\", "n">>), ",", <<"\\", ",">>),
         ";", <<"\\", ";">>), ":", <<"\\", ":">>)

\* contact.p?.trim() || "" and the test contact.p?.trim() of the optional
\* fields: the trimmed string, '' for an absent property.
trimmedOrEmpty(v) == IF v.type = "string" THEN trim(v.value) ELSE <<>>

\* A line of the card: its literal prefix as one piece, then the characters
\* written after it.
Line(prefix, chars) == <<prefix>> \o chars

\* Lines for every string of emails that is not blank; an array is taken as
\* it is, a string as an array of one.
formatEmails(emails) ==
  IF ~Truthy(emails) THEN <<>>
  ELSE LET emailArray == IF emails.type = "array" THEN emails.value
                         ELSE <<emails>>
           kept == SelectSeq(emailArray,
                     LAMBDA email : Truthy(email) /\ email.type = "string"
                                      /\ Len(trim(email.value)) > 0)
       IN [i \in 1..Len(kept) |->
             Line("EMAIL;TYPE=INTERNET:", escapeVCard(trim(kept[i].value)))]

formatPhones(values, type) ==
  IF ~Truthy(values) THEN <<>>
  ELSE LET numbers == IF values.type = "array" THEN values.value
                      ELSE <<values>>
           kept == SelectSeq(numbers,
                     LAMBDA number : Truthy(number) /\ number.type = "string"
                                       /\ Len(trim(number.value)) > 0)
       IN [i \in 1..Len(kept) |->
             Line(type, escapeVCard(trim(kept[i].value)))]

\* The error validateContact throws, or a plain return.
validateContact(contact) ==
  IF contact.kind # "object"
    THEN Throw(<<"Contact data must be an object">>)
  ELSE IF ~( Truthy(contact.firstName) \/ Truthy(contact.lastName)
             \/ Truthy(contact.organization) \/ Truthy(contact.email) )
    THEN Throw(<<"Contact must have at least a name, organization, or email">>)
  ELSE Return(<<>>)

\* The line, if the trimmed value is not empty.
optionalLine(prefix, v) ==
  IF trimmedOrEmpty(v) # <<>>
    THEN << Line(prefix, escapeVCard(trimmedOrEmpty(v))) >>
  ELSE <<>>

\* generate(contact).  The value returned is the lines joined by CRLF; the
\* model keeps the lines.  The enumerated contacts have no address, birthday,
\* photo, social, messaging or categories, whose lines are ADR, BDAY, PHOTO,
\* X-... and CATEGORIES lines.
generate(contact) ==
  IF validateContact(contact).threw THEN validateContact(contact)
  ELSE
    LET firstName == trimmedOrEmpty(contact.firstName)
        lastName == trimmedOrEmpty(contact.lastName)
        fullName == join(SelectSeq(<<firstName, lastName>>,
                                   LAMBDA n : n # <<>>), <<" ">>)
        nameLines ==
          IF fullName # <<>>
            THEN << Line("FN:", escapeVCard(fullName)),
                    Line("N:", escapeVCard(lastName) \o <<";">>
                                 \o escapeVCard(firstName) \o <<";;;">>) >>
          ELSE <<>>
        org == trimmedOrEmpty(contact.organization)
        orgLine == IF trimmedOrEmpty(contact.department) # <<>>
                     THEN org \o <<";">> \o trimmedOrEmpty(contact.department)
                   ELSE org
        orgLines == IF org # <<>>
                      THEN << Line("ORG:", escapeVCard(orgLine)) >>
                    ELSE <<>>
        emailLines == IF Truthy(contact.email) THEN formatEmails(contact.email)
                      ELSE <<>>
    IN Return( <<Line("BEGIN:VCARD", <<>>), Line("VERSION:4.0", <<>>)>>
               \o nameLines
               \o optionalLine("NICKNAME:", contact.nickname)
               \o orgLines
               \o optionalLine("TITLE:", contact.title)
               \o emailLines
               \o formatPhones(contact.phone, "TEL;TYPE=WORK,VOICE:")
               \o formatPhones(contact.mobile, "TEL;TYPE=CELL,VOICE:")
               \o formatPhones(contact.fax, "TEL;TYPE=FAX:")
               \o optionalLine("URL:", contact.website)
               \o optionalLine("NOTE:", contact.note)
               \o <<Line("END:VCARD", <<>>)>> )

\* Longest string of a property of an enumerated contact, and the most
\* emails in its array.
MaxFieldLen == 1

MaxEmails == 1

VCardStrings == { Str(s) : s \in UNION { [1..n -> {" ", "J", ";"}] : n \in 0..MaxFieldLen } }

\* A string property that may be absent.
OptionalStrings == {undefined} \cup VCardStrings

\* email?: string | string[]
EmailValues ==
  OptionalStrings
    \cup { StrArray(a) : a \in UNION { [1..n -> VCardStrings] : n \in 0..MaxEmails } }

\* The other optional strings: absent, blank, or with a value.
OtherValues == {undefined, Str(<<" ">>), Str(<<"T">>)}

\* The contact objects; nickname, title, the phones, website and note take
\* one value together.
ObjectContacts ==
  { [kind |-> "object", firstName |-> fn, lastName |-> ln,
     organization |-> o, department |-> d, email |-> e,
     nickname |-> x, title |-> x, phone |-> x, mobile |-> x, fax |-> x,
     website |-> x, note |-> x] :
      fn \in OptionalStrings, ln \in OptionalStrings, o \in OptionalStrings,
      d \in OtherValues, e \in EmailValues, x \in OtherValues }

VCardInit ==
  /\ OffExcept("vcard")
  /\ pc = "vcard"
  /\ vcContact \in { [kind |-> k] : k \in {"null", "undefined", "string"} }
                   \cup ObjectContacts
  /\ vcResult = Return(<<>>)

\* VCardGenerator.generate(vcContact)
Generate ==
  /\ pc = "vcard"
  /\ pc' = "generated"
  /\ vcResult' = generate(vcContact)
  /\ UNCHANGED vcContact
  /\ FrameExcept("vcard")

SpecVCard == VCardInit /\ [][Generate]_vars

\* The card has a line of one of the three kinds that identify a contact.
HasIdentifyingLine(lines) ==
  \E i \in 1..Len(lines) :
    lines[i][1] \in {"FN:", "ORG:", "EMAIL;TYPE=INTERNET:"}

\* C18: generate returns a vCard only for a contact with a name, an
\* organization or an email, every vCard it returns has at least one FN, ORG
\* or EMAIL line, and every other call throws one of the two validation
\* errors.
C18_ReturnedCardIdentifiesContact ==
  pc = "generated"
    => /\ ~vcResult.threw => HasIdentifyingLine(vcResult.value)
       /\ vcResult.threw
            => vcResult.message \in
                 { <<"Contact must have at least a name, organization, or email">>,
                   <<"Contact data must be an object">> }

\* ---------------------------------------------------------- isTokenExpired

\* A call that returned v, and a call that threw.
Returned(v) == [threw |-> FALSE, value |-> v]

Thrown == [threw |-> TRUE, value |-> FALSE]

\* token.split(".")
RECURSIVE splitDot(_, _)
splitDot(s, part) ==
  IF s = <<>> THEN <<part>>
  ELSE IF Head(s) = "." THEN <<part>> \o splitDot(Tail(s), <<>>)
  ELSE splitDot(Tail(s), Append(part, Head(s)))

\* while (base64Str.length % 4) base64Str += "="
RECURSIVE padBase64(_)
padBase64(s) == IF Len(s) % 4 = 0 THEN s ELSE padBase64(Append(s, "="))

\* What atob makes of the groups of four characters that the payloads
\* {"exp":1}, {"exp":2}, {}, ' null ' and '{"exp":"?"} ' are written with.
Base64Groups ==
    (<<"e", "y", "J", "l">> :> <<"{", "\"", "e">>)
    @@ (<<"e", "H", "A", "i">> :> <<"x", "p", "\"">>)
    @@ (<<"O", "j", "F", "9">> :> <<":", "1", "}">>)
    @@ (<<"O", "j", "J", "9">> :> <<":", "2", "}">>)
    @@ (<<"e", "3", "0", "=">> :> <<"{", "}">>)
    @@ (<<"I", "G", "5", "1">> :> <<" ", "n", "u">>)
    @@ (<<"b", "G", "w", "g">> :> <<"l", "l", " ">>)
    @@ (<<"O", "i", "I", "/">> :> <<":", "\"", "?">>)
    @@ (<<"I", "n", "0", "g">> :> <<"\"", "}", " ">>)

\* A group outside the table stands for bytes that are no part of a JSON
\* text; "?!" is written for them.
RECURSIVE atob(_)
atob(s) ==
  IF s = <<>> THEN <<>>
  ELSE LET group == SubSeq(s, 1, 4)
       IN (IF group \in DOMAIN Base64Groups THEN Base64Groups[group]
           ELSE <<"?!">>) \o atob(SubSeq(s, 5, Len(s)))

base64UrlDecode(str) ==
  atob(padBase64(replaceAll(replaceAll(str, "-", <<"+">>), "_", <<"/">>)))

\* A number, a string, null and undefined as values of a payload.
JsNumber(n) == [type |-> "number", n |-> n]

JsString == [type |-> "string", n |-> 0]

JsUndefined == [type |-> "undefined", n |-> 0]

\* What JSON.parse returns for the texts it accepts: an object with its exp
\* property, or null.
JsonTexts ==
    (<<"{", "\"", "e", "x", "p", "\"", ":", "1", "}">> :> [isNull |-> FALSE, exp |-> JsNumber(1)])
    @@ (<<"{", "\"", "e", "x", "p", "\"", ":", "2", "}">> :> [isNull |-> FALSE, exp |-> JsNumber(2)])
    @@ (<<"{", "}">> :> [isNull |-> FALSE, exp |-> JsUndefined])
    @@ (<<" ", "n", "u", "l", "l", " ">> :> [isNull |-> TRUE, exp |-> JsUndefined])
    @@ (<<"{", "\"", "e", "x", "p", "\"", ":", "\"", "?", "\"", "}", " ">> :> [isNull |-> FALSE, exp |-> JsString])

\* JSON.parse(json): a SyntaxError for every other text.
JSONparse(json) ==
  IF json \in DOMAIN JsonTexts THEN Returned(JsonTexts[json]) ELSE Thrown

decodeJWTPayload(token) ==
  LET parts == splitDot(token, <<>>)
  IN IF Len(parts) # 3 THEN Thrown
     ELSE JSONparse(base64UrlDecode(parts[2]))

\* The exp of the payload if it is a number, null otherwise (null is held as
\* JsUndefined: its typeof is not "number" either).
getTokenExpClaim(token) ==
  LET payload == decodeJWTPayload(token)
  IN IF payload.threw THEN Thrown
     ELSE IF ~payload.value.isNull /\ payload.value.exp.type = "number"
       THEN Returned(payload.value.exp)
     ELSE Returned(JsUndefined)

\* !token: null, undefined and '' are falsy.
TokenFalsy(token) ==
  \/ token.type \in {"undefined", "object"}
  \/ token.type = "string" /\ token.value = <<>>

\* isTokenExpired that compares exp with >= instead of >.
isTokenExpired_ExpiresLater(token, offsetSeconds, now) ==
  IF TokenFalsy(token) THEN Returned(TRUE)
  ELSE IF token.type # "string" THEN Returned(TRUE)
  ELSE LET exp == getTokenExpClaim(token.value)
       IN IF exp.threw THEN Returned(TRUE)
          ELSE IF exp.value.type # "number" THEN Returned(TRUE)
          ELSE Returned(~(exp.value.n * 1000 >= now + offsetSeconds * 1000))

\* isTokenExpired that returns the comparison without negating it.
isTokenExpired_NotNegated(token, offsetSeconds, now) ==
  IF TokenFalsy(token) THEN Returned(TRUE)
  ELSE IF token.type # "string" THEN Returned(TRUE)
  ELSE LET exp == getTokenExpClaim(token.value)
       IN IF exp.threw THEN Returned(TRUE)
          ELSE IF exp.value.type # "number" THEN Returned(TRUE)
          ELSE Returned(exp.value.n * 1000 > now + offsetSeconds * 1000)

\* isTokenExpired(token, offsetSeconds) when Date.now() is now.  A token
\* that is a number has no split method: the TypeError is caught like the
\* errors of decodeJWTPayload.
isTokenExpired(token, offsetSeconds, now) ==
  IF TokenFalsy(token) THEN Returned(TRUE)
  ELSE IF token.type # "string" THEN Returned(TRUE)
  ELSE LET exp == getTokenExpClaim(token.value)
       IN IF exp.threw THEN Returned(TRUE)
          ELSE IF exp.value.type # "number" THEN Returned(TRUE)
          ELSE Returned(~(exp.value.n * 1000 > now + offsetSeconds * 1000))

\* Most pieces an enumerated token is written with.
MaxTokenPieces == 4

\* The pieces: a dot and the base64url texts of the five payloads.
TokenPieces ==
  { <<".">>, <<"e", "y", "J", "l", "e", "H", "A", "i", "O", "j", "F", "9">>, <<"e", "y", "J", "l", "e", "H", "A", "i", "O", "j", "J", "9">>,
    <<"e", "3", "0">>, <<"I", "G", "5", "1", "b", "G", "w", "g">>,
    <<"e", "y", "J", "l", "e", "H", "A", "i", "O", "i", "I", "_", "I", "n", "0", "g">> }

RECURSIVE TokensOf(_)
TokensOf(n) ==
  IF n = 0 THEN {<<>>}
  ELSE LET shorter == TokensOf(n - 1)
       IN shorter \cup { p \o s : p \in TokenPieces, s \in shorter }

Tokens == { Str(s) : s \in TokensOf(MaxTokenPieces) } \cup NonStrings

TokenInit ==
  /\ OffExcept("token")
  /\ pc = "token"
  /\ tokToken \in Tokens
  /\ tokOffset \in {0, 1}
  /\ tokNow \in {999, 1000, 1999, 2000}
  /\ tokResult = Returned(TRUE)
  /\ tokEarlier = [now |-> 0, result |-> Returned(TRUE)]

\* isTokenExpired(tokToken, tokOffset)
IsTokenExpired ==
  /\ pc = "token"
  /\ pc' = "checked"
  /\ tokResult' = isTokenExpired(tokToken, tokOffset, tokNow)
  /\ UNCHANGED <<tokToken, tokOffset, tokNow, tokEarlier>>
  /\ FrameExcept("token")

SpecToken == TokenInit /\ [][IsTokenExpired]_vars

\* The values Date.now() takes: a millisecond before and the millisecond of
\* the exp of each payload.
ClockTimes == {999, 1000, 1999, 2000}

\* isTokenExpired(tokToken, tokOffset) called once more, with the same token
\* and offset, when Date.now() has become another value (the system clock
\* can also be set back).
IsTokenExpiredAgain ==
  /\ pc = "checked"
  /\ pc' = "rechecked"
  /\ tokEarlier' = [now |-> tokNow, result |-> tokResult]
  /\ \E now \in ClockTimes :
       /\ tokNow' = now
       /\ tokResult' = isTokenExpired(tokToken, tokOffset, now)
  /\ UNCHANGED <<tokToken, tokOffset>>
  /\ FrameExcept("token")

\* A token checked at one clock time and again at another.
SpecClock == TokenInit /\ [][IsTokenExpired \/ IsTokenExpiredAgain]_vars

\* The number of dots of a string.
Dots(s) == Len(SelectSeq(s, LAMBDA c : c = "."))

\* The text between the first and the second dot of a string with two dots.
Middle(s) ==
  LET first == CHOOSE i \in 1..Len(s) : s[i] = "." /\ \A j \in 1..(i - 1) : s[j] # "."
      second == CHOOSE i \in (first + 1)..Len(s) : s[i] = "."
  IN SubSeq(s, first + 1, second - 1)

\* The base64url payloads that decode to an object with a numeric exp, with
\* that exp in seconds.
ExpOfPayload == (<<"e", "y", "J", "l", "e", "H", "A", "i", "O", "j", "F", "9">> :> 1) @@ (<<"e", "y", "J", "l", "e", "H", "A", "i", "O", "j", "J", "9">> :> 2)

\* C19: isTokenExpired never throws; it returns true for an empty or missing
\* token, for a token that has not exactly three dot-separated parts, for
\* a payload that does not decode and for a payload without a numeric exp;
\* for every other token it returns false exactly when
\* exp * 1000 > now + offsetSeconds * 1000.
C19_ExpiredUnlessExpAhead ==
  pc = "checked"
    => /\ ~tokResult.threw
       /\ tokResult.value =
            IF /\ tokToken.type = "string"
               /\ Dots(tokToken.value) = 2
               /\ Middle(tokToken.value) \in DOMAIN ExpOfPayload
              THEN ~( ExpOfPayload[Middle(tokToken.value)] * 1000
                        > tokNow + tokOffset * 1000 )
            ELSE TRUE

\* A token with exp one second ahead was found valid, and expired with an
\* offset of one second.
C19_Witness ==
  /\ pc = "checked"
  /\ tokToken = Str(<<"e", "3", "0">> \o <<".">> \o <<"e", "y", "J", "l", "e", "H", "A", "i", "O", "j", "J", "9">> \o <<".">>)
  /\ tokNow = 1999
  /\ tokOffset = 0
  /\ tokResult = Returned(FALSE)

\* ------------------------------------------------------------ formatNumber

\* The number num / den (den > 0), and the values null and undefined.
Ratio(num, den) == [type |-> "number", num |-> num, den |-> den]

NoNumber(type) == [type |-> type, num |-> 0, den |-> 1]

\* The suffixes from the largest to the smallest.  The entries E, P and T
\* (1e18, 1e15, 1e12) stand before these; no enumerated value reaches them.
suffixes ==
  << [value |-> 1000000000, symbol |-> <<"B">>],
     [value |-> 1000000, symbol |-> <<"M">>],
     [value |-> 1000, symbol |-> <<"K">>],
     [value |-> 1, symbol |-> <<>>] >>

DigitChars == <<"0", "1", "2", "3", "4", "5", "6", "7", "8", "9">>

\* The decimal numeral of a natural number.
RECURSIVE numeral(_)
numeral(n) ==
  IF n < 10 THEN <<DigitChars[n + 1]>>
  ELSE numeral(n \div 10) \o <<DigitChars[(n % 10) + 1]>>

\* The last k digits of n, with leading zeros.
RECURSIVE lastDigits(_, _)
lastDigits(n, k) ==
  IF k = 0 THEN <<>>
  ELSE lastDigits(n \div 10, k - 1) \o <<DigitChars[(n % 10) + 1]>>

\* (num / den).toFixed(k): the integer n with n / 10^k nearest to the number,
\* the larger one of two, written with k digits after the point.
toFixed(num, den, k) ==
  LET n == (2 * num * Pow10(k) + den) \div (2 * den)
  IN IF k = 0 THEN numeral(n)
     ELSE numeral(n \div Pow10(k)) \o <<".">> \o lastDigits(n, k)

\* Whether /\.?0+$/ matches s from position i on.
zerosToEnd(s, i) ==
  LET from == IF s[i] = "." THEN i + 1 ELSE i
  IN from <= Len(s) /\ \A j \in from..Len(s) : s[j] = "0"

\* s.replace(/\.?0+$/, ""): the leftmost match is removed.
removeTrailingZeros(s) ==
  LET starts == { i \in 1..Len(s) : zerosToEnd(s, i) }
  IN IF starts = {} THEN s
     ELSE SubSeq(s, 1, (CHOOSE i \in starts : \A j \in starts : i <= j) - 1)

formatNumber(value, decimalPlaces) ==
  IF value.type # "number" \/ value.num = 0 THEN <<"0">>
  ELSE
    LET isNegative == value.num < 0
        absoluteNum == IF value.num < 0 THEN -value.num ELSE value.num
        \* absoluteValue >= item.value, for the whole number item.value
        found == { i \in 1..Len(suffixes) :
                     absoluteNum \div value.den >= suffixes[i].value }
    IN IF found = {} THEN <<"0">>
       ELSE
         LET suffix == suffixes[CHOOSE i \in found : \A j \in found : i <= j]
             places == IF decimalPlaces > 0 THEN decimalPlaces ELSE 0
             formattedValue ==
               removeTrailingZeros(
                 toFixed(absoluteNum, value.den * suffix.value, places))
             sign == IF isNegative THEN <<"-">> ELSE <<>>
         IN sign \o formattedValue \o suffix.symbol

\* The enumerated values are the integers below 1000, the multiples of 100
\* up to MaxHundreds hundreds, the values 1234 and 9876 and the hundredths
\* 0.01, 0.1 and 0.99, each with both signs, and null and undefined.  None
\* of them lies, as a binary fraction, half way between two numerals other
\* than exactly.
MaxHundreds == 10000

MaxDecimalPlaces == 2

FormatValues ==
  LET positive ==
        { Ratio(v, 1) : v \in 0..999 \cup {1234, 9876}
                                \cup { 100 * h : h \in 10..MaxHundreds } }
          \cup { Ratio(c, 100) : c \in {1, 10, 99} }
  IN positive \cup { Ratio(-v.num, v.den) : v \in positive }
       \cup { NoNumber("object"), NoNumber("undefined") }

FormatInit ==
  /\ OffExcept("format")
  /\ pc = "format"
  /\ fmtValue \in FormatValues
  /\ fmtDecimalPlaces \in -1..MaxDecimalPlaces
  /\ fmtResult = <<>>

\* formatNumber(fmtValue, fmtDecimalPlaces)
FormatNumber ==
  /\ pc = "format"
  /\ pc' = "formatted"
  /\ fmtResult' = formatNumber(fmtValue, fmtDecimalPlaces)
  /\ UNCHANGED <<fmtValue, fmtDecimalPlaces>>
  /\ FrameExcept("format")

SpecFormat == FormatInit /\ [][FormatNumber]_vars

\* A numeral without the zeros that end its fraction, and without the point
\* when no digit of the fraction is left.
RECURSIVE WithoutFractionZeros(_)
WithoutFractionZeros(s) ==
  IF "." \notin Chars(s) THEN s
  ELSE IF s[Len(s)] = "0" THEN WithoutFractionZeros(SubSeq(s, 1, Len(s) - 1))
  ELSE IF s[Len(s)] = "." THEN SubSeq(s, 1, Len(s) - 1)
  ELSE s

\* The symbol of the suffix of a positive integer below 1e12.
SymbolOf(v) ==
  IF v >= 1000000000 THEN <<"B">>
  ELSE IF v >= 1000000 THEN <<"M">>
  ELSE IF v >= 1000 THEN <<"K">>
  ELSE <<>>

ScaleOf(v) ==
  IF v >= 1000000000 THEN 1000000000
  ELSE IF v >= 1000000 THEN 1000000
  ELSE IF v >= 1000 THEN 1000
  ELSE 1

\* C20: formatNumber removes only zeros that follow a decimal point, and the
\* point when no fractional digit remains; the digits of the integer part
\* of the scaled value are never removed, whatever decimalPlaces is (a
\* negative one counts as 0).  For v in 1..999, formatNumber(v, 0) is the
\* numeral of v; for a multiple v of 1000 in 1000..999999 it is the numeral
\* of v / 1000 followed by K.
C20_OnlyFractionZerosRemoved ==
  ( /\ pc = "formatted"
    /\ fmtValue.type = "number"
    /\ fmtValue.den = 1
    /\ fmtValue.num # 0 )
    => LET v == IF fmtValue.num < 0 THEN -fmtValue.num ELSE fmtValue.num
           places == IF fmtDecimalPlaces > 0 THEN fmtDecimalPlaces ELSE 0
           sign == IF fmtValue.num < 0 THEN <<"-">> ELSE <<>>
       IN /\ fmtResult =
               sign \o WithoutFractionZeros(toFixed(v, ScaleOf(v), places))
                    \o SymbolOf(v)
          /\ (fmtValue.num \in 1..999 /\ fmtDecimalPlaces = 0)
               => fmtResult = numeral(v)
          /\ ( /\ fmtValue.num \in 1000..999999
               /\ fmtValue.num % 1000 = 0
               /\ fmtDecimalPlaces = 0 )
               => fmtResult = numeral(v \div 1000) \o <<"K">>

\* ------------------------------------------------------ isValidComponentName

\* [a-z0-9]
LowerOrDigit == LowerAZ \cup Digit09

\* The end of the run of [a-z0-9] that starts at position i (i - 1 if none).
RECURSIVE lowerDigitRunEnd(_, _)
lowerDigitRunEnd(s, i) ==
  IF i <= Len(s) /\ s[i] \in LowerOrDigit THEN lowerDigitRunEnd(s, i + 1)
  ELSE i - 1

\* (-[a-z0-9]+)*$ from position i on, where a group may also be a lone dash.
RECURSIVE kebabGroups_LoneDash(_, _)
kebabGroups_LoneDash(s, i) ==
  \/ i > Len(s)
  \/ /\ s[i] = "-"
     /\ kebabGroups_LoneDash(s, lowerDigitRunEnd(s, i + 1) + 1)

\* (-[a-z0-9]+)*$ from position i on.
RECURSIVE kebabGroups(_, _)
kebabGroups(s, i) ==
  \/ i > Len(s)
  \/ /\ s[i] = "-"
     /\ lowerDigitRunEnd(s, i + 1) >= i + 1
     /\ kebabGroups(s, lowerDigitRunEnd(s, i + 1) + 1)

\* /^[a-z][a-z0-9]*(-[a-z0-9]+)*$/.test(name)
kebabCaseRegex(name) ==
  /\ Len(name) >= 1
  /\ name[1] \in LowerAZ
  /\ kebabGroups(name, lowerDigitRunEnd(name, 2) + 1)

reservedNames ==
  { <<"c", "o", "m", "p", "o", "n", "e", "n", "t">>, <<"e", "l", "e", "m", "e", "n", "t">>,
    <<"n", "o", "d", "e">>, <<"r", "e", "f">>, <<"k", "e", "y">>, <<"p", "r", "o", "p", "s">> }

\* The messages of the format validation, in the order they are pushed.
formatErrors(name) ==
  IF kebabCaseRegex(name) THEN <<>>
  ELSE
    (IF ~(Len(name) >= 1 /\ name[1] \in LowerAZ)
       THEN << <<"Name must start with a lowercase letter">> >> ELSE <<>>)
    \o (IF \E i \in 1..Len(name) : name[i] \in UpperAZ
          THEN << <<"Name must be lowercase (use kebab-case)">> >> ELSE <<>>)
    \o (IF \E i \in 1..(Len(name) - 1) : name[i] = "-" /\ name[i + 1] = "-"
          THEN << <<"Name cannot contain consecutive dashes">> >> ELSE <<>>)
    \o (IF \E i \in 1..Len(name) : name[i] \notin LowerOrDigit \cup {"-"}
          THEN << <<"Name can only contain lowercase letters, numbers, and dashes">> >>
        ELSE <<>>)
    \o (IF Len(name) >= 1 /\ (name[1] = "-" \/ name[Len(name)] = "-")
          THEN << <<"Name cannot start or end with a dash">> >> ELSE <<>>)

isValidComponentName(name, options) ==
  IF name.type # "string"
    THEN [valid |-> FALSE, errors |-> << <<"Name must be a string">> >>]
  ELSE IF ~options.allowEmpty /\ Len(trim(name.value)) = 0
    THEN [valid |-> FALSE, errors |-> << <<"Name cannot be empty">> >>]
  ELSE
    LET errors ==
          (IF Len(name.value) < options.minLength
             THEN << <<"Name must be at least ", options.minLength,
                       " characters long">> >> ELSE <<>>)
          \o (IF Len(name.value) > options.maxLength
                THEN << <<"Name must be no more than ", options.maxLength,
                          " characters long">> >> ELSE <<>>)
          \o formatErrors(name.value)
          \o (IF name.value \in reservedNames
                THEN << <<"\"", name.value, "\" is a reserved name">> >>
              ELSE <<>>)
    IN [valid |-> Len(errors) = 0, errors |-> errors]

\* Longest name enumerated letter by letter.
MaxNameLen == 4

\* The enumerated names: every string of at most MaxNameLen characters of
\* a small alphabet, names of 49, 50 and 51 letters a, the reserved names,
\* and null, undefined and a number.
ComponentNames ==
  { Str(s) : s \in UNION { [1..n -> {"a", "A", "1", "-", " ", "_"}] : n \in 0..MaxNameLen } }
    \cup { Str([i \in 1..n |-> "a"]) : n \in 49..51 }
    \cup { Str(s) : s \in reservedNames }
    \cup NonStrings

\* The options: the defaults, allowEmpty, and other length limits.
ComponentOptions ==
  { [allowEmpty |-> FALSE, minLength |-> 1, maxLength |-> 50],
    [allowEmpty |-> TRUE, minLength |-> 1, maxLength |-> 50],
    [allowEmpty |-> TRUE, minLength |-> 0, maxLength |-> 2],
    [allowEmpty |-> FALSE, minLength |-> 3, maxLength |-> 50] }

NameInit ==
  /\ OffExcept("name")
  /\ pc = "name"
  /\ cnName \in ComponentNames
  /\ cnOptions \in ComponentOptions
  /\ cnResult = [valid |-> FALSE, errors |-> <<>>]

\* isValidComponentName(cnName, cnOptions)
IsValidComponentName ==
  /\ pc = "name"
  /\ pc' = "validated"
  /\ cnResult' = isValidComponentName(cnName, cnOptions)
  /\ UNCHANGED <<cnName, cnOptions>>
  /\ FrameExcept("name")

SpecName == NameInit /\ [][IsValidComponentName]_vars

\* The lowercase kebab-case names, by their shape: a lowercase letter first,
\* only lowercase letters, digits and dashes, no dash at the end and no two
\* dashes in a row.
IsKebabCase(s) ==
  /\ Len(s) >= 1
  /\ s[1] \in LowerAZ
  /\ \A i \in 1..Len(s) : s[i] \in LowerAZ \cup Digit09 \cup {"-"}
  /\ s[Len(s)] # "-"
  /\ \A i \in 1..(Len(s) - 1) : ~(s[i] = "-" /\ s[i + 1] = "-")

\* C21: valid is true exactly when the errors list is empty; with the
\* default options that is exactly when the name is a string in lowercase
\* kebab-case of 1 to 50 characters that is not a reserved name; and every
\* name that fails the kebab-case pattern gets at least one error.
C21_ValidIffKebabUnreserved ==
  pc = "validated"
    => /\ cnResult.valid <=> cnResult.errors = <<>>
       /\ cnOptions = [allowEmpty |-> FALSE, minLength |-> 1, maxLength |-> 50]
            => ( cnResult.valid
                   <=> /\ cnName.type = "string"
                       /\ IsKebabCase(cnName.value)
                       /\ Len(cnName.value) \in 1..50
                       /\ cnName.value \notin
                            { <<"c", "o", "m", "p", "o", "n", "e", "n", "t">>, <<"e", "l", "e", "m", "e", "n", "t">>,
                              <<"n", "o", "d", "e">>, <<"r", "e", "f">>, <<"k", "e", "y">>, <<"p", "r", "o", "p", "s">> } )
       /\ (cnName.type = "string" /\ ~IsKebabCase(cnName.value))
            => Len(cnResult.errors) >= 1

\* A kebab-case name was found valid under the default options.
C21_Witness ==
  /\ pc = "validated"
  /\ cnOptions = [allowEmpty |-> FALSE, minLength |-> 1, maxLength |-> 50]
  /\ cnName = Str(<<"a", "-", "1">>)
  /\ cnResult = [valid |-> TRUE, errors |-> <<>>]

\* -------------------------------------------------------------- array-utils

\* array.slice(start, end) for 0 <= start: the elements at the indices
\* start .. end - 1 that exist.
slice(array, start, end) ==
  SubSeq(array, start + 1, IF end < Len(array) THEN end ELSE Len(array))

\* Math.floor(a / b) where Math.ceil is called for.
ceilDiv_Floor(a, b) == a \div b

\* Math.ceil(a / b) for a >= 0 and b >= 1
ceilDiv(a, b) == (a + b - 1) \div b

chunk(array, size) ==
  IF size <= 0 THEN Thrown
  ELSE IF Len(array) = 0 THEN Returned(<<>>)
  ELSE Returned([k \in 1..ceilDiv(Len(array), size) |->
                   slice(array, (k - 1) * size, (k - 1) * size + size)])

\* A key: a number, or NaN.
Key(v) == [nan |-> FALSE, v |-> v]

KeyNaN == [nan |-> TRUE, v |-> 0]

\* Object.is(a, b) for keys: NaN is the same value as NaN.
strictEquals_SameValue(a, b) == a = b

\* a === b for keys: NaN is not equal to itself.
strictEquals(a, b) == ~a.nan /\ ~b.nan /\ a.v = b.v

\* The key functions of the enumerated calls: (x) => x, (x) => x % 2, and
\* one that returns NaN for every element.
keyOf(keyFn, x) ==
  CASE keyFn = "identity" -> Key(x)
    [] keyFn = "parity" -> Key(x % 2)
    [] OTHER -> KeyNaN

\* The loop of groupConsecutive from index i (0-based) on.
RECURSIVE groupLoop(_, _, _, _, _, _)
groupLoop(array, keyFn, i, res, currentGroup, currentKey) ==
  IF i >= Len(array) THEN Append(res, currentGroup)
  ELSE LET key == keyOf(keyFn, array[i + 1])
       IN IF strictEquals(key, currentKey)
            THEN groupLoop(array, keyFn, i + 1, res,
                           Append(currentGroup, array[i + 1]), currentKey)
          ELSE groupLoop(array, keyFn, i + 1, Append(res, currentGroup),
                         <<array[i + 1]>>, key)

groupConsecutive(array, keyFn) ==
  IF Len(array) = 0 THEN <<>>
  ELSE groupLoop(array, keyFn, 1, <<>>, <<array[1]>>, keyOf(keyFn, array[1]))

\* result[i] = result[j] without the assignment to result[j] (0-based).
swap_Overwrite(res, i, j) == [res EXCEPT ![i + 1] = res[j + 1]]

\* [result[i], result[j]] = [result[j], result[i]] (0-based)
swap(res, i, j) ==
  [res EXCEPT ![i + 1] = res[j + 1], ![j + 1] = res[i + 1]]

\* Longest array enumerated, and the elements it is filled with.
MaxArrayLen == 4

ArrayValues == UNION { [1..n -> {1, 2, 3}] : n \in 0..MaxArrayLen }

ArrayInit ==
  /\ OffExcept("array")
  /\ pc = "array"
  /\ arArray \in ArrayValues
  /\ arOp = "none"
  /\ arArg = 0
  /\ arResult = <<>>
  /\ arI = 0
  /\ arOut = Returned(<<>>)

\* chunk(arArray, size)
Chunk ==
  /\ pc = "array"
  /\ \E size \in -1..(MaxArrayLen + 1) :
       /\ arArg' = size
       /\ arOut' = chunk(arArray, size)
  /\ arOp' = "chunk"
  /\ pc' = "returned"
  /\ UNCHANGED <<arArray, arResult, arI>>
  /\ FrameExcept("array")

\* groupConsecutive(arArray, keyFn)
GroupConsecutive ==
  /\ pc = "array"
  /\ \E keyFn \in {"identity", "parity", "nan"} :
       /\ arArg' = keyFn
       /\ arOut' = Returned(groupConsecutive(arArray, keyFn))
  /\ arOp' = "groupConsecutive"
  /\ pc' = "returned"
  /\ UNCHANGED <<arArray, arResult, arI>>
  /\ FrameExcept("array")

\* shuffle(arArray), or sample(arArray, n), up to the loop of shuffle:
\* const result = [...array]; i = result.length - 1
ShuffleBegin ==
  /\ pc = "array"
  /\ \/ arOp' = "shuffle" /\ arArg' = 0
     \/ arOp' = "sample" /\ arArg' \in 0..(MaxArrayLen + 1)
  /\ arResult' = arArray
  /\ arI' = Len(arArray) - 1
  /\ pc' = "shuffling"
  /\ UNCHANGED <<arArray, arOut>>
  /\ FrameExcept("array")

\* One turn of the loop: j is any of 0 .. i, as Math.random() decides.
ShuffleStep ==
  /\ pc = "shuffling"
  /\ arI > 0
  /\ \E j \in 0..arI : arResult' = swap(arResult, arI, j)
  /\ arI' = arI - 1
  /\ UNCHANGED <<pc, arArray, arOp, arArg, arOut>>
  /\ FrameExcept("array")

\* The loop has ended: shuffle returns result, sample returns it whole when
\* n >= array.length and its first n elements otherwise.
ShuffleReturn ==
  /\ pc = "shuffling"
  /\ ~(arI > 0)
  /\ arOut' = IF arOp = "shuffle" \/ arArg >= Len(arArray)
                THEN Returned(arResult)
              ELSE Returned(slice(arResult, 0, arArg))
  /\ pc' = "returned"
  /\ UNCHANGED <<arArray, arOp, arArg, arResult, arI>>
  /\ FrameExcept("array")

ArrayNext ==
  Chunk \/ GroupConsecutive \/ ShuffleBegin \/ ShuffleStep \/ ShuffleReturn

SpecArray == ArrayInit /\ [][ArrayNext]_vars

\* C22: for size >= 1 the chunks of chunk(array, size), written one after
\* the other, are the array; every chunk but the last has size elements and
\* the last has 1 to size; the empty array gives no chunk; for size <= 0
\* chunk throws.
C22_ChunksPartitionArray ==
  (pc = "returned" /\ arOp = "chunk")
    => IF arArg <= 0 THEN arOut.threw
       ELSE LET chunks == arOut.value
            IN /\ ~arOut.threw
               /\ Concat(chunks) = arArray
               /\ \A k \in 1..(Len(chunks) - 1) : Len(chunks[k]) = arArg
               /\ Len(chunks) >= 1 => Len(chunks[Len(chunks)]) \in 1..arArg
               /\ arArray = <<>> => chunks = <<>>

\* An array of three elements was cut into a chunk of two and a chunk of one.
C22_Witness ==
  /\ pc = "returned"
  /\ arOp = "chunk"
  /\ arArray = <<1, 2, 3>>
  /\ arArg = 2
  /\ arOut = Returned(<< <<1, 2>>, <<3>> >>)

\* Whether the key function gives two elements keys that are equal by ===.
SameKey(keyFn, x, y) ==
  CASE keyFn = "identity" -> x = y
    [] keyFn = "parity" -> x % 2 = y % 2
    [] OTHER -> FALSE

\* C26: the groups of groupConsecutive, written one after the other, are
\* the input array; no group is empty; any two elements of one group have
\* the same key by ===; the last element of a group and the first of the
\* next have different keys; the empty array gives no group.
C26_GroupsAreMaximalRuns ==
  (pc = "returned" /\ arOp = "groupConsecutive")
    => LET groups == arOut.value
       IN /\ Concat(groups) = arArray
          /\ \A g \in 1..Len(groups) :
               /\ Len(groups[g]) >= 1
               /\ \A i, j \in 1..Len(groups[g]) :
                    i # j => SameKey(arArg, groups[g][i], groups[g][j])
          /\ \A g \in 1..(Len(groups) - 1) :
               ~SameKey(arArg, groups[g][Len(groups[g])], groups[g + 1][1])
          /\ arArray = <<>> => groups = <<>>

\* Two equal elements were grouped and the run after them split off; with
\* NaN keys equal elements were kept apart.
C26_Witness ==
  /\ pc = "returned"
  /\ arOp = "groupConsecutive"
  /\ arArray = <<1, 1, 2, 1>>
  /\ arArg = "identity"
  /\ arOut = Returned(<< <<1, 1>>, <<2>>, <<1>> >>)

\* How often v occurs in s.
Count(s, v) == Len(SelectSeq(s, LAMBDA x : x = v))

\* C27: whatever the random choices, shuffle returns a permutation of the
\* array; sample(array, n) returns min(n, length) elements that form a
\* sub-multiset of the array, all of it when n >= length; and the array the
\* caller passed is never changed.
C27_SampleIsSubMultiset ==
  /\ [] ( (pc = "returned" /\ arOp \in {"shuffle", "sample"})
            => LET out == arOut.value
                   length == Len(arArray)
               IN /\ ~arOut.threw
                  /\ Len(out) = IF arOp = "shuffle" \/ arArg >= length
                                  THEN length ELSE arArg
                  /\ \A v \in {1, 2, 3} :
                       IF Len(out) = length
                         THEN Count(out, v) = Count(arArray, v)
                       ELSE Count(out, v) <= Count(arArray, v) )
  /\ [][arArray' = arArray]_vars

\* A sample of two was taken out of three elements after a shuffle that
\* moved them.
C27_Witness ==
  /\ pc = "returned"
  /\ arOp = "sample"
  /\ arArray = <<1, 2, 3>>
  /\ arArg = 2
  /\ arResult = <<3, 1, 2>>
  /\ arOut = Returned(<<3, 1>>)

\* ------------------------------------------------------------- numberToWord
\* A string is a sequence of pieces here: English words and single spaces.

SINGLE_DIGITS ==
  <<"Zero", "One", "Two", "Three", "Four", "Five", "Six", "Seven", "Eight",
    "Nine">>

TEENS ==
  <<"Ten", "Eleven", "Twelve", "Thirteen", "Fourteen", "Fifteen", "Sixteen",
    "Seventeen", "Eighteen", "Nineteen">>

TENS ==
  <<"", "", "Twenty", "Thirty", "Forty", "Fifty", "Sixty", "Seventy",
    "Eighty", "Ninety">>

\* getSuffix(i) for the groups of a number below 1e9; "" is the empty string.
getSuffix(i) ==
  IF i = 0 THEN <<>> ELSE <<(<<"Thousand", "Million", "Billion">>)[i]>>

\* helper(n) for 0 <= n <= 999: every word is followed by a space.
helper(n) ==
  LET hundreds == IF n >= 100
                    THEN <<SINGLE_DIGITS[(n \div 100) + 1], " ", "Hundred", " ">>
                  ELSE <<>>
      n1 == IF n >= 100 THEN n % 100 ELSE n
      tens == IF n1 >= 10 /\ n1 <= 19 THEN <<TEENS[n1 - 10 + 1], " ">>
              ELSE IF n1 >= 20 THEN <<TENS[(n1 \div 10) + 1], " ">>
              ELSE <<>>
      n2 == IF n1 >= 20 THEN n1 % 10 ELSE n1
      units == IF n2 >= 1 /\ n2 <= 9 THEN <<SINGLE_DIGITS[n2 + 1], " ">>
               ELSE <<>>
  IN hundreds \o tens \o units

\* The while loop of convertIntegerToWord that puts the suffix behind
\* every group, a zero group too.
RECURSIVE convertLoop_ZeroGroups(_, _, _)
convertLoop_ZeroGroups(n, i, ws) ==
  IF ~(n > 0) THEN ws
  ELSE convertLoop_ZeroGroups(n \div 1000, i + 1,
         helper(n % 1000) \o getSuffix(i) \o <<" ">> \o ws)

\* The while loop of convertIntegerToWord.
RECURSIVE convertLoop(_, _, _)
convertLoop(n, i, ws) ==
  IF ~(n > 0) THEN ws
  ELSE convertLoop(n \div 1000, i + 1,
         IF n % 1000 # 0
           THEN helper(n % 1000) \o getSuffix(i) \o <<" ">> \o ws
         ELSE ws)

convertIntegerToWord(n) ==
  IF n = 0 THEN <<SINGLE_DIGITS[1]>> ELSE trim(convertLoop(n, 0, <<>>))

\* The decimal digits of a positive integer, as numbers.
RECURSIVE digitsOf(_)
digitsOf(n) ==
  IF n < 10 THEN <<n>> ELSE Append(digitsOf(n \div 10), n % 10)

\* The for loop of convertFractionalToWord.
RECURSIVE fractionalLoop(_)
fractionalLoop(digits) ==
  IF digits = <<>> THEN <<>>
  ELSE <<SINGLE_DIGITS[Head(digits) + 1], " ">> \o fractionalLoop(Tail(digits))

convertFractionalToWord(n) ==
  IF n <= 0 THEN <<>> ELSE trim(fractionalLoop(digitsOf(n)))

\* Number(fractionalPart): the number a string of digits is the numeral of;
\* zeros at its start do not count.
RECURSIVE NumberOfDigits(_)
NumberOfDigits(digits) ==
  IF digits = <<>> THEN 0
  ELSE 10 * NumberOfDigits(SubSeq(digits, 1, Len(digits) - 1))
         + digits[Len(digits)]

\* numberToWord(n) for n written as value.int "." value.frac, or as
\* value.int alone when value.frac is empty; split(".")[1] || "0" is "0"
\* then.
numberToWord(value) ==
  LET fractionalPart == IF value.frac = <<>> THEN <<0>> ELSE value.frac
      integerPartWords == convertIntegerToWord(value.int)
      fractionalPartWords ==
        convertFractionalToWord(NumberOfDigits(fractionalPart))
  IN IF fractionalPartWords # <<>>
       THEN integerPartWords \o <<" ", "Point", " ">> \o fractionalPartWords
     ELSE integerPartWords

\* The integers up to MaxWordInt are enumerated one by one, the larger ones
\* by their groups of three digits; fractions have at most MaxFracLen
\* digits, the last one not 0.
MaxWordInt == 1100

MaxFracLen == 2

WordGroups == {0, 1, 10, 15, 20, 21, 100, 101, 110, 999}

WordValues ==
  { Num(n, <<>>) : n \in 0..MaxWordInt }
    \cup { Num(a * 1000000 + b * 1000 + c, <<>>) :
             a \in WordGroups, b \in WordGroups, c \in WordGroups }
    \cup { Num(n, d) : n \in {0, 1, 21},
             d \in { e \in UNION { [1..k -> {0, 1, 5, 9}] : k \in 1..MaxFracLen } :
                       e[Len(e)] # 0 } }

WordInit ==
  /\ OffExcept("word")
  /\ pc = "word"
  /\ nwValue \in WordValues
  /\ nwResult = <<>>

\* numberToWord(nwValue)
NumberToWord ==
  /\ pc = "word"
  /\ pc' = "worded"
  /\ nwResult' = numberToWord(nwValue)
  /\ UNCHANGED nwValue
  /\ FrameExcept("word")

SpecWord == WordInit /\ [][NumberToWord]_vars

\* The English words of a group of three digits, 1..999.
GroupReading(g) ==
  LET h == g \div 100
      r == g % 100
  IN (IF h > 0 THEN <<SINGLE_DIGITS[h + 1], "Hundred">> ELSE <<>>)
     \o (IF r \in 10..19 THEN <<TEENS[r - 9]>>
         ELSE (IF r >= 20 THEN <<TENS[(r \div 10) + 1]>> ELSE <<>>)
              \o (IF r % 10 > 0 THEN <<SINGLE_DIGITS[(r % 10) + 1]>> ELSE <<>>))

\* The English words of n in 0..999,999,999.
Reading(n) ==
  IF n = 0 THEN <<"Zero">>
  ELSE LET millions == n \div 1000000
           thousands == (n \div 1000) % 1000
           units == n % 1000
       IN (IF millions > 0 THEN Append(GroupReading(millions), "Million")
           ELSE <<>>)
          \o (IF thousands > 0 THEN Append(GroupReading(thousands), "Thousand")
              ELSE <<>>)
          \o (IF units > 0 THEN GroupReading(units) ELSE <<>>)

\* Words with one space between them.
Spaced(ws) == [i \in 1..(2 * Len(ws) - 1) |-> IF i % 2 = 1 THEN ws[(i + 1) \div 2] ELSE " "]

\* C23: for an integer n in 0..999,999,999 numberToWord(n) is the English
\* reading of n: each non-zero group of three digits read and followed by
\* its scale word, zero groups left out, the words separated by one space,
\* no space at either end; 0 reads Zero.
C23_IntegerReading ==
  (pc = "worded" /\ nwValue.frac = <<>>)
    => nwResult = Spaced(Reading(nwValue.int))

\* 1,000,021 was read without its empty thousands group.
C23_Witness ==
  /\ pc = "worded"
  /\ nwValue = Num(1000021, <<>>)
  /\ nwResult = <<"One", " ", "Million", " ", "Twenty", " ", "One">>

\* C24: for a number with fractional digits d1..dk the result is the words
\* of the integer part, ' Point ', and the names of d1..dk in order, every
\* digit kept, zeros at the start of the fraction too; an integer gets no
\* Point part.
C24_FractionDigitsSpelled ==
  pc = "worded"
    => nwResult =
         IF nwValue.frac = <<>> THEN Spaced(Reading(nwValue.int))
         ELSE Spaced(Reading(nwValue.int) \o <<"Point">>
                       \o [i \in 1..Len(nwValue.frac) |->
                             SINGLE_DIGITS[nwValue.frac[i] + 1]])

\* ------------------------------------------------------------------ flatten
\* A value is a leaf (a number here) or an object or array with its entries
\* as Object.entries lists them: pairs of a key (a string) and a value.  The
\* entries of an array have the keys "0", "1", ...

Leaf(v) == [t |-> "leaf", v |-> v, items |-> <<>>]

Nested(t, items) == [t |-> t, v |-> 0, items |-> items]

Entry(key, value) == [key |-> key, value |-> value]

\* flattened[newPath] = value: a key the object has keeps its place.
assign(flattened, newPath, value) ==
  IF \E i \in 1..Len(flattened) : flattened[i].key = newPath
    THEN [i \in 1..Len(flattened) |->
            IF flattened[i].key = newPath THEN Entry(newPath, value)
            ELSE flattened[i]]
  ELSE Append(flattened, Entry(newPath, value))

\* recurse(current, path), and its for loop over the entries left to visit;
\* both give the object flattened has become.
RECURSIVE recurse(_, _, _, _), recurseEntries(_, _, _, _)
recurse(current, path, separator, flattened) ==
  IF current.t = "leaf" THEN flattened
  ELSE recurseEntries(current.items, path, separator, flattened)

recurseEntries(entries, path, separator, flattened) ==
  IF entries = <<>> THEN flattened
  ELSE LET key == Head(entries).key
           value == Head(entries).value
           newPath == IF path # <<>> THEN path \o separator \o key ELSE key
       IN recurseEntries(Tail(entries), path, separator,
            IF value.t # "leaf" THEN recurse(value, newPath, separator, flattened)
            ELSE assign(flattened, newPath, value.v))

flatten(obj, separator) == recurse(obj, <<>>, separator, <<>>)

\* Deepest nesting of an enumerated input and the most entries of one of
\* its objects and arrays.
MaxFlattenDepth == 2

MaxEntries == 2

FlattenKeys == {<<>>, <<"a">>, <<"b">>, <<"a", "-", "b">>}

\* The objects with entries of distinct keys and values in vals, and the
\* arrays with items in vals.
NestedOver(vals) ==
  { Nested("object", es) :
      es \in { e \in UNION { [1..n -> [key : FlattenKeys, value : vals]] : n \in 0..MaxEntries } :
                 \A i, j \in 1..Len(e) : i # j => e[i].key # e[j].key } }
    \cup { Nested("array", [i \in 1..Len(a) |-> Entry(<<DigitChars[i]>>, a[i])]) :
             a \in UNION { [1..n -> vals] : n \in 0..MaxEntries } }

RECURSIVE FlattenValues(_)
FlattenValues(d) ==
  IF d = 0 THEN {Leaf(1), Leaf(2)}
  ELSE LET inner == FlattenValues(d - 1) IN inner \cup NestedOver(inner)

FlattenInit ==
  /\ OffExcept("flatten")
  /\ pc = "flatten"
  /\ flInput \in NestedOver(FlattenValues(MaxFlattenDepth - 1))
  /\ flSeparator \in {<<"-">>, <<".">>}
  /\ flResult = <<>>

\* flatten(flInput, flSeparator)
Flatten ==
  /\ pc = "flatten"
  /\ pc' = "flattened"
  /\ flResult' = flatten(flInput, flSeparator)
  /\ UNCHANGED <<flInput, flSeparator>>
  /\ FrameExcept("flatten")

SpecFlatten == FlattenInit /\ [][Flatten]_vars

\* The leaves of a value, each with the keys and indices that lead to it.
RECURSIVE LeafPaths(_, _)
LeafPaths(value, keys) ==
  IF value.t = "leaf" THEN {[keys |-> keys, v |-> value.v]}
  ELSE UNION { LeafPaths(value.items[i].value, Append(keys, value.items[i].key)) :
                 i \in 1..Len(value.items) }

\* C25: for every leaf reached through the keys or indices k1..kn the result
\* maps the key k1 sep k2 ... sep kn to that leaf, and the result has one
\* entry for each leaf of the input.
C25_OneEntryPerLeaf ==
  pc = "flattened"
    => LET leaves == LeafPaths(flInput, <<>>)
       IN /\ \A l \in leaves :
               \E i \in 1..Len(flResult) :
                 /\ flResult[i].key = join(l.keys, flSeparator)
                 /\ flResult[i].value = l.v
          /\ Len(flResult) = Cardinality(leaves)

\* ------------------------------------------------- convertCase, applied twice

\* C28 as stated: for every string and each of the ten case types,
\* converting the result of convertCase again to the same case gives the
\* same string.
C28_IdempotentForEveryCase ==
  (pc = "reconverted" /\ IsString(input) /\ caseType \in CaseTypes)
    => reresult = result

\* C28, amended: converting again gives the same string for the eight case
\* types that write a separator between the words (lowercase, uppercase,
\* sentence, title, snake, kebab, dot, constant); camel and pascal join the
\* words without one and are left out.
C28_IdempotentWithSeparators ==
  ( /\ pc = "reconverted"
    /\ IsString(input)
    /\ caseType \in CaseTypes \ {"camel", "pascal"} )
    => reresult = result

\* A string of three words was put in snake case, twice.
C28_Witness ==
  /\ pc = "reconverted"
  /\ input = Str(<<"a", "B", ".", "1">>)
  /\ caseType = "snake"
  /\ result = Return(<<"a", "_", "b", "_", "1">>)
  /\ reresult = result

\* ------------------------------------------- isTokenExpired, as time passes

\* C29: for a fixed token and offset, a call that returned true at clock
\* time t is followed by true at every clock time t' >= t: a token never
\* goes from expired back to valid as the clock advances.
C29_ExpiredStaysExpired ==
  ( /\ pc = "rechecked"
    /\ tokEarlier.now <= tokNow
    /\ tokEarlier.result = Returned(TRUE) )
    => tokResult = Returned(TRUE)

\* A token with exp 2 s and offset 1 s was found expired at 1000 ms and
\* again at 1999 ms.
C29_Witness ==
  /\ pc = "rechecked"
  /\ tokToken = Str(<<"e", "3", "0">> \o <<".">> \o <<"e", "y", "J", "l", "e", "H", "A", "i", "O", "j", "J", "9">> \o <<".">>)
  /\ tokOffset = 1
  /\ tokEarlier = [now |-> 1000, result |-> Returned(TRUE)]
  /\ tokNow = 1999
  /\ tokResult = Returned(TRUE)

\* -------------------------------------------- compactObject and its argument
\* The heap is the sequence of the objects and arrays that exist; the
\* address of one is its index.  A cell holds its type and its entries
\* [key, v] in order (the key of an array item is ""); v is a primitive
\* or the address of another cell.

HPrim(t, s) == [t |-> t, s |-> s, addr |-> 0]

Ref(addr) == [t |-> "ref", s |-> "", addr |-> addr]

Cell(t, items) == [t |-> t, items |-> items]

\* What a call leaves: the heap after it and the address it returned.
Done(heap, addr) == [heap |-> heap, addr |-> addr]

\* {} and []: a new cell, at the next address.
allocate(heap, t) == Done(Append(heap, Cell(t, <<>>)), Len(heap) + 1)

\* The object literal a caller writes: node and the values inside it are
\* allocated, node first.
RECURSIVE storeValue(_, _)
RECURSIVE storeItems(_, _, _, _)
storeValue(heap, node) ==
  IF node.t \notin {"array", "object"}
    THEN [heap |-> heap, v |-> HPrim(node.t, node.s)]
  ELSE LET new == allocate(heap, node.t)
       IN [heap |-> storeItems(new.heap, new.addr, node.items, 1),
           v |-> Ref(new.addr)]

storeItems(heap, addr, items, i) ==
  IF i > Len(items) THEN heap
  ELSE LET stored == storeValue(heap, items[i])
       IN storeItems(
            [stored.heap EXCEPT ![addr].items =
               Append(@, [key |-> items[i].key, v |-> stored.v])],
            addr, items, i + 1)

\* isEmptyValue on a value of the heap.
isEmptyHeapValue(v) ==
  \/ v.t = "string" /\ v.s = ""
  \/ v.t = "undefined"
  \/ v.t = "null"

\* A filter that removes the empty items from the array itself.
filterNotEmpty_InPlace(heap, addr) ==
  Done([heap EXCEPT ![addr].items =
          SelectSeq(@, LAMBDA e : ~isEmptyHeapValue(e.v))],
       addr)

\* value.filter((item) => !isEmpty(item)): a new array.
filterNotEmpty(heap, addr) ==
  Done(Append(heap,
              Cell("array",
                   SelectSeq(heap[addr].items,
                             LAMBDA e : ~isEmptyHeapValue(e.v)))),
       Len(heap) + 1)

\* .filter((item) => item !== null): a new array.
filterNotNull(heap, addr) ==
  Done(Append(heap,
              Cell("array",
                   SelectSeq(heap[addr].items, LAMBDA e : e.v.t # "null"))),
       Len(heap) + 1)

\* result[key] = v
setProperty(heap, addr, key, v) ==
  IF \E i \in 1..Len(heap[addr].items) : heap[addr].items[i].key = key
    THEN [heap EXCEPT ![addr].items =
            [i \in 1..Len(@) |->
               IF @[i].key = key THEN [key |-> key, v |-> v] ELSE @[i]]]
  ELSE [heap EXCEPT ![addr].items = Append(@, [key |-> key, v |-> v])]

\* compactObject(obj, options) on the heap: compactObjectAt is the call,
\* compactEntries its for loop over Object.entries(obj) from entry i on,
\* mapItems the .map callback over the items of the array at src from
\* item i on, writing the new array at dst.
RECURSIVE compactObjectAt(_, _, _)
RECURSIVE compactEntries(_, _, _, _, _)
RECURSIVE mapItems(_, _, _, _, _)
compactObjectAt(heap, obj, options) ==
  LET res == allocate(heap, "object")
  IN Done(compactEntries(res.heap, heap[obj].items, 1, res.addr, options),
          res.addr)

mapItems(heap, src, i, dst, options) ==
  IF i > Len(heap[src].items) THEN heap
  ELSE LET item == heap[src].items[i].v
       IN IF item.t = "ref" /\ heap[item.addr].t = "object"
          THEN LET compactedItem == compactObjectAt(heap, item.addr, options)
                   mapped ==
                     IF Len(compactedItem.heap[compactedItem.addr].items) > 0
                     THEN Ref(compactedItem.addr)
                     ELSE HPrim("null", "")
               IN mapItems(
                    [compactedItem.heap EXCEPT ![dst].items =
                       Append(@, [key |-> "", v |-> mapped])],
                    src, i + 1, dst, options)
          ELSE mapItems(
                 [heap EXCEPT ![dst].items = Append(@, [key |-> "", v |-> item])],
                 src, i + 1, dst, options)

compactEntries(heap, entries, i, res, options) ==
  IF i > Len(entries) THEN heap
  ELSE
    LET key == entries[i].key
        value == entries[i].v
    IN IF isEmptyHeapValue(value)
       THEN compactEntries(heap, entries, i + 1, res, options)
       ELSE IF value.t = "ref" /\ heap[value.addr].t = "array"
       THEN IF options.compactArrays
            THEN LET kept == filterNotEmpty(heap, value.addr)
                     target == allocate(kept.heap, "array")
                     mapped == mapItems(target.heap, kept.addr, 1,
                                        target.addr, options)
                     compactedArray == filterNotNull(mapped, target.addr)
                 IN IF \/ ~options.removeEmptyArrays
                       \/ Len(compactedArray.heap[compactedArray.addr].items) > 0
                    THEN compactEntries(
                           setProperty(compactedArray.heap, res, key,
                                       Ref(compactedArray.addr)),
                           entries, i + 1, res, options)
                    ELSE compactEntries(compactedArray.heap, entries, i + 1,
                                        res, options)
            ELSE compactEntries(setProperty(heap, res, key, value),
                                entries, i + 1, res, options)
       ELSE IF value.t = "ref"
       THEN LET compactedNested == compactObjectAt(heap, value.addr, options)
            IN IF Len(compactedNested.heap[compactedNested.addr].items) > 0
               THEN compactEntries(
                      setProperty(compactedNested.heap, res, key,
                                  Ref(compactedNested.addr)),
                      entries, i + 1, res, options)
               ELSE compactEntries(compactedNested.heap, entries, i + 1,
                                   res, options)
       ELSE compactEntries(setProperty(heap, res, key, value),
                           entries, i + 1, res, options)

\* The caller holds one of the enumerated objects; nothing else exists.
HeapInit ==
  /\ OffExcept("heap")
  /\ pc = "heap"
  /\ \E node \in CompactInputs :
       /\ hpHeap = storeValue(<<>>, node).heap
       /\ hpObj = storeValue(<<>>, node).v.addr
  /\ hpOptions \in [compactArrays : BOOLEAN, removeEmptyArrays : BOOLEAN]
  /\ hpResult = 0

\* compactObject(hpObj, hpOptions)
CompactObjectAt ==
  /\ pc = "heap"
  /\ pc' = "compactedAt"
  /\ LET done == compactObjectAt(hpHeap, hpObj, hpOptions)
     IN /\ hpHeap' = done.heap
        /\ hpResult' = done.addr
  /\ UNCHANGED <<hpObj, hpOptions>>
  /\ FrameExcept("heap")

SpecHeap == HeapInit /\ [][CompactObjectAt]_vars

\* C30: compactObject returns a new object and leaves its argument
\* unchanged: for every option combination the object returned did not
\* exist before the call, and every object and array that did (the argument
\* and all that is reachable from it) holds the same keys, items and values
\* after the call as before it.
C30_ArgumentUnchanged ==
  [][ (pc = "heap" /\ pc' = "compactedAt")
        => /\ hpResult' \notin 1..Len(hpHeap)
           /\ hpResult' # hpObj
           /\ Len(hpHeap') >= Len(hpHeap)
           /\ \A addr \in 1..Len(hpHeap) : hpHeap'[addr] = hpHeap[addr] ]_vars

\* compactObject({ a: [""] }) with the default options returned a new
\* object { a: [] }; the argument still holds its array with the empty
\* string.
C30_Witness ==
  /\ pc = "compactedAt"
  /\ hpOptions = [compactArrays |-> TRUE, removeEmptyArrays |-> FALSE]
  /\ hpObj = 1
  /\ hpHeap[1] = Cell("object", <<[key |-> "a", v |-> Ref(2)]>>)
  /\ hpHeap[2] = Cell("array", <<[key |-> "", v |-> HPrim("string", "")]>>)
  /\ hpResult = 3
  /\ hpHeap[3] = Cell("object", <<[key |-> "a", v |-> Ref(6)]>>)
  /\ hpHeap[6] = Cell("array", <<>>)

====
